---- MODULE Spec2Model ----
(***************************************************************************)
(* State-machine model of the SecureEncryption engine (encryptUtils.js)    *)
(* of strava-connect: construction from {SOURCE}_ENCRYPTION_KEY, encrypt,  *)
(* decrypt, the temp-buffer bookkeeping, clearKey and destroy.             *)
(*                                                                         *)
(* Buffers are sequences of bytes (0..255) and JavaScript strings are      *)
(* sequences of UTF-16 code units; base64 text is a sequence of base64     *)
(* symbols (0..63), the pad character and one illegal character.           *)
(*                                                                         *)
(* The primitives of node:crypto are modelled as ideal primitives:         *)
(*   - randomFillSync is an ideal CSPRNG, successive draws never repeat;   *)
(*   - pbkdf2Sync is a deterministic function of (master key, salt);       *)
(*   - AES-256-GCM is a length-preserving keystream cipher whose tag is    *)
(*     unforgeable: decipher.final() accepts a (key, iv, ciphertext, tag)  *)
(*     exactly when a cipher produced that tag for that key, iv and        *)
(*     ciphertext (the set gcmTags remembers what ciphers produced).       *)
(***************************************************************************)
EXTENDS Integers, Sequences, FiniteSets, TLC

(* ------------------------------------------------------------------ *)
(* Program constants                                                    *)
(* ------------------------------------------------------------------ *)

\* #keyLength = 32, and the 32 of pbkdf2Sync / createTempBuffer(32) for salt
KeyLength == 32
SaltLength == 32
IvLength == 12
TagLength == 16
\* data.length - 60: salt + iv + tag
HeaderLength == 60

(* ------------------------------------------------------------------ *)
(* Bounds of the model                                                  *)
(* ------------------------------------------------------------------ *)

\* successful encrypt calls (envelopes handed to the caller) per run
MaxEncrypts == 2
\* an encrypt/decrypt call starts only while the engine tracks at most this many buffers
MaxTracked == 2
\* buffers the caller holds from createTempBuffer
MaxHeld == 1
\* successful encrypt calls per run when two engines run side by side
MaxPairEncrypts == 1

(* ------------------------------------------------------------------ *)
(* Bytes, strings                                                       *)
(* ------------------------------------------------------------------ *)

Zero(n) == [i \in 1..n |-> 0]

IsZero(b) == \A i \in 1..Len(b) : b[i] = 0

\* a concat that puts its second buffer first
ConcatSwapped(a, b) == b \o a

\* Buffer.concat of two buffers
Concat(a, b) == a \o b

(* UTF-16 code units of a JavaScript string -> UTF-8 bytes, as
   Buffer.byteLength(s, 'utf8') / buffer.write(s, 'utf8') encode them:
   a surrogate pair becomes one 4-byte sequence, a lone surrogate becomes
   U+FFFD (EF BF BD). *)
IsHighSurrogate(c) == c >= 55296 /\ c <= 56319
IsLowSurrogate(c) == c >= 56320 /\ c <= 57343

RECURSIVE Utf8Encode(_)
Utf8Encode(s) ==
    IF s = <<>> THEN <<>>
    ELSE LET c == Head(s) IN
         IF c < 128 THEN <<c>> \o Utf8Encode(Tail(s))
         ELSE IF c < 2048
              THEN <<192 + (c \div 64), 128 + (c % 64)>> \o Utf8Encode(Tail(s))
         ELSE IF IsHighSurrogate(c) /\ Len(s) >= 2 /\ IsLowSurrogate(s[2])
              THEN LET cp == 65536 + (c - 55296) * 1024 + (s[2] - 56320) IN
                   <<240 + (cp \div 262144),
                     128 + ((cp \div 4096) % 64),
                     128 + ((cp \div 64) % 64),
                     128 + (cp % 64)>> \o Utf8Encode(Tail(Tail(s)))
         ELSE IF IsHighSurrogate(c) \/ IsLowSurrogate(c)
              THEN <<239, 191, 189>> \o Utf8Encode(Tail(s))
         ELSE <<224 + (c \div 4096), 128 + ((c \div 64) % 64), 128 + (c % 64)>>
                  \o Utf8Encode(Tail(s))

Utf8ByteLength(s) == Len(Utf8Encode(s))

(* buffer.toString('utf8'): UTF-8 bytes -> UTF-16 code units; a byte that
   starts no well-formed sequence decodes to U+FFFD. *)
IsCont(b, i) == i <= Len(b) /\ b[i] >= 128 /\ b[i] <= 191

RECURSIVE Utf8Decode(_)
Utf8Decode(b) ==
    IF b = <<>> THEN <<>>
    ELSE LET c == b[1]
             cp2 == (c - 192) * 64 + (b[2] - 128)
             cp3 == (c - 224) * 4096 + (b[2] - 128) * 64 + (b[3] - 128)
             cp4 == (c - 240) * 262144 + (b[2] - 128) * 4096
                        + (b[3] - 128) * 64 + (b[4] - 128)
         IN
         IF c < 128 THEN <<c>> \o Utf8Decode(Tail(b))
         ELSE IF c >= 194 /\ c <= 223 /\ IsCont(b, 2)
              THEN <<cp2>> \o Utf8Decode(SubSeq(b, 3, Len(b)))
         ELSE IF c >= 224 /\ c <= 239 /\ IsCont(b, 2) /\ IsCont(b, 3)
                   /\ cp3 >= 2048 /\ ~(cp3 >= 55296 /\ cp3 <= 57343)
              THEN <<cp3>> \o Utf8Decode(SubSeq(b, 4, Len(b)))
         ELSE IF c >= 240 /\ c <= 244 /\ IsCont(b, 2) /\ IsCont(b, 3) /\ IsCont(b, 4)
                   /\ cp4 >= 65536 /\ cp4 <= 1114111
              THEN <<55296 + ((cp4 - 65536) \div 1024), 56320 + ((cp4 - 65536) % 1024)>>
                       \o Utf8Decode(SubSeq(b, 5, Len(b)))
         ELSE <<65533>> \o Utf8Decode(Tail(b))

(* A string is well-formed Unicode (has a UTF-8 form of its own) when every
   surrogate code unit is part of a high/low pair. *)
RECURSIVE WellFormed(_)
WellFormed(s) ==
    IF s = <<>> THEN TRUE
    ELSE IF IsHighSurrogate(s[1])
         THEN Len(s) >= 2 /\ IsLowSurrogate(s[2]) /\ WellFormed(Tail(Tail(s)))
    ELSE ~IsLowSurrogate(s[1]) /\ WellFormed(Tail(s))

(* ------------------------------------------------------------------ *)
(* base64                                                               *)
(* ------------------------------------------------------------------ *)

\* base64 text: symbols 0..63 are the alphabet, Pad is '=', Illegal is any
\* character outside the alphabet (for example '!')
Pad == 64
Illegal == 65

\* buffer.toString('base64')
Base64Encode(b) ==
    LET n == Len(b)
        B(i) == IF i <= n THEN b[i] ELSE 0
    IN [j \in 1..(4 * ((n + 2) \div 3)) |->
          LET q == (j - 1) \div 4
              pos == (j - 1) % 4
              b0 == B(3 * q + 1)
              b1 == B(3 * q + 2)
              b2 == B(3 * q + 3)
          IN CASE pos = 0 -> b0 \div 4
               [] pos = 1 -> (b0 % 4) * 16 + (b1 \div 16)
               [] pos = 2 -> IF 3 * q + 2 > n THEN Pad ELSE (b1 % 16) * 4 + (b2 \div 64)
               [] pos = 3 -> IF 3 * q + 3 > n THEN Pad ELSE b2 % 64]

\* Buffer.from(s, 'base64'): characters outside the alphabet are skipped,
\* decoding stops at the first '=', a trailing partial group of 2 or 3
\* symbols yields 1 or 2 bytes
Base64Decode(s) ==
    LET pads == {i \in 1..Len(s) : s[i] = Pad}
        stop == IF pads = {} THEN Len(s)
                ELSE (CHOOSE i \in pads : \A j \in pads : i <= j) - 1
        syms == SelectSeq(SubSeq(s, 1, stop), LAMBDA c : c < 64)
        m == Len(syms)
        n == (m \div 4) * 3 + (CASE m % 4 = 0 -> 0 [] m % 4 = 1 -> 0
                                 [] m % 4 = 2 -> 1 [] m % 4 = 3 -> 2)
    IN [k \in 1..n |->
          LET q == (k - 1) \div 3
              pos == (k - 1) % 3
              C(i) == IF i <= m THEN syms[i] ELSE 0
              c0 == C(4 * q + 1)
              c1 == C(4 * q + 2)
              c2 == C(4 * q + 3)
              c3 == C(4 * q + 4)
          IN CASE pos = 0 -> c0 * 4 + (c1 \div 16)
               [] pos = 1 -> (c1 % 16) * 16 + (c2 \div 4)
               [] pos = 2 -> (c2 % 4) * 64 + c3]

(* ------------------------------------------------------------------ *)
(* node:crypto, as ideal primitives                                     *)
(* ------------------------------------------------------------------ *)

\* crypto.randomFillSync(buffer): the k-th draw of the process, n bytes;
\* draws with different k differ in every byte and are never all zero
RandomBytes(n, k) == [i \in 1..n |-> ((k * 16 + i) % 255) + 1]

\* crypto.pbkdf2Sync(masterKey, salt, 100000, 32, 'sha256'): deterministic,
\* and changing any byte of the key or of the salt changes the result
Pbkdf2Sync(masterKey, salt) ==
    [i \in 1..KeyLength |->
        (masterKey[((i - 1) % Len(masterKey)) + 1] + 7 * salt[((i - 1) % Len(salt)) + 1] + i) % 256]

\* the AES-CTR keystream of GCM under (key, iv), byte i
Keystream(key, iv, i) ==
    (key[((i - 1) % Len(key)) + 1] + 3 * iv[((i - 1) % Len(iv)) + 1] + i) % 256

\* cipher.update(plaintext) followed by cipher.final(): same length as the input
CipherUpdate(key, iv, pt) ==
    [i \in 1..Len(pt) |-> (pt[i] + Keystream(key, iv, i)) % 256]

\* decipher.update(ciphertext): GCM releases the bytes before the tag is verified
DecipherUpdate(key, iv, ct) ==
    [i \in 1..Len(ct) |-> (ct[i] + 256 - Keystream(key, iv, i)) % 256]

\* the k-th tag an ideal GCM hands out; tags of different k differ
TagBytes(k) == [i \in 1..TagLength |-> ((k * 32 + i * 5) % 255) + 1]

\* cipher.getAuthTag(): the tag of (key, iv, ct); tags is the set of
\* [key, iv, ct, tag] records of all tags produced so far
GetAuthTag(tags, key, iv, ct) ==
    IF \E t \in tags : t.key = key /\ t.iv = iv /\ t.ct = ct
    THEN (CHOOSE t \in tags : t.key = key /\ t.iv = iv /\ t.ct = ct).tag
    ELSE TagBytes(Cardinality(tags) + 1)

\* a decipher that never compares the tag: final() accepts any tag for a
\* (key, iv, ct) that was encrypted
DecipherFinalAnyTag(tags, key, iv, ct, tag) ==
    \E t \in tags : t.key = key /\ t.iv = iv /\ t.ct = ct

\* decipher.setAuthTag(tag) ... decipher.final(): TRUE when the tag
\* authenticates (key, iv, ct), FALSE when final() throws
DecipherFinalOk(tags, key, iv, ct, tag) ==
    \E t \in tags : t.key = key /\ t.iv = iv /\ t.ct = ct /\ t.tag = tag

(* ------------------------------------------------------------------ *)
(* process.env                                                          *)
(* ------------------------------------------------------------------ *)

KeyStrava == [i \in 1..KeyLength |-> 17]
KeySheets == [i \in 1..KeyLength |-> 34]

\* source tags handed to the constructor
Sources == {"Strava", "sheets", "huggingface", "garmin", "test", "legacy"}

\* String.prototype.toUpperCase on the source tags
ToUpperCase(source) ==
    CASE source = "Strava" -> "STRAVA"
      [] source = "strava" -> "STRAVA"
      [] source = "sheets" -> "SHEETS"
      [] source = "huggingface" -> "HUGGINGFACE"
      [] source = "garmin" -> "GARMIN"
      [] source = "test" -> "TEST"
      [] source = "legacy" -> "LEGACY"

\* process.env: two well-formed keys, a 31-byte and a 33-byte value, an
\* empty value, a lower-case name no lookup uses; GARMIN_ENCRYPTION_KEY is
\* not set
ProcessEnv ==
    [name \in {"STRAVA_ENCRYPTION_KEY", "SHEETS_ENCRYPTION_KEY", "HUGGINGFACE_ENCRYPTION_KEY",
               "TEST_ENCRYPTION_KEY", "LEGACY_ENCRYPTION_KEY", "huggingface_ENCRYPTION_KEY"} |->
        CASE name = "STRAVA_ENCRYPTION_KEY" -> Base64Encode(KeyStrava)
          [] name = "SHEETS_ENCRYPTION_KEY" -> Base64Encode(KeySheets)
          [] name = "HUGGINGFACE_ENCRYPTION_KEY" -> Base64Encode([i \in 1..(KeyLength - 1) |-> 51])
          [] name = "TEST_ENCRYPTION_KEY" -> <<>>
          [] name = "LEGACY_ENCRYPTION_KEY" -> Base64Encode([i \in 1..(KeyLength + 1) |-> 68])
          [] name = "huggingface_ENCRYPTION_KEY" -> Base64Encode([i \in 1..KeyLength |-> 85])]

\* process.env of the deployed app: the key of each of the three services
\* is well-formed
KeyHuggingface == [i \in 1..KeyLength |-> 51]
DeployedEnv ==
    [ProcessEnv EXCEPT !["HUGGINGFACE_ENCRYPTION_KEY"] = Base64Encode(KeyHuggingface)]

(* ------------------------------------------------------------------ *)
(* Engine objects and the heap of buffers                               *)
(* ------------------------------------------------------------------ *)

\* the JavaScript null in a field that otherwise holds a buffer
NullBuf == <<-1>>

\* an own enumerable property holding null
NullProp == <<>>

\* the engine objects of a run
Engines == {1, 2}

\* the own enumerable properties the constructor sets
InitialProps ==
    [algorithm |-> <<"aes-256-gcm">>, keyLength |-> <<32>>, ivLength |-> <<12>>,
     saltLength |-> <<32>>, tagLength |-> <<16>>, iterations |-> <<100000>>]

\* no object yet in this slot
NoEngine ==
    [exists |-> FALSE, masterKey |-> NullBuf, tempBuffers |-> {}, isDestroyed |-> FALSE,
     props |-> InitialProps]

\* errors, by the message the code builds
ErrDestroyed == "Object has been destroyed"
ErrNotSet == "Environment variable not set"
ErrInvalidFormat == "Invalid format"
ErrEncryptionFailed == "Encryption failed"
ErrDecryptionFailed == "Decryption failed"

\* what a call hands back: a value, or a thrown Error (err is its message,
\* cause the message of the error it wraps)
Returned(v) == [ok |-> TRUE, val |-> v, err |-> "", cause |-> ""]
Thrown(msg, why) == [ok |-> FALSE, val |-> <<>>, err |-> msg, cause |-> why]

VARIABLES
    engine,     \* engine[e]: the fields of engine object e
    heap,       \* heap[b]: the bytes of buffer b (tracked, held by the caller, or of the last call)
    held,       \* buffers the caller got from createTempBuffer
    rng,        \* draws made from the CSPRNG
    gcmTags,    \* tags produced by GCM ciphers
    store,      \* envelopes the caller got from encrypt, in order
    last,       \* the last call: operation, engine, argument, outcome
    app         \* the services built on the engine: sheet rows, wrapper invocations

vars == <<engine, heap, held, rng, gcmTags, store, last, app>>

\* buffers some engine tracks or the caller holds
Live == held \cup UNION {engine[e].tempBuffers : e \in Engines}

\* the heap once buffers nobody references are collected
Collected == [b \in Live |-> heap[b]]

\* a buffer id not in use in heap h
NewId(h) == CHOOSE b \in 1..(Cardinality(DOMAIN h) + 1) : b \notin DOMAIN h

Extend(h, b, bytes) == [x \in DOMAIN h \cup {b} |-> IF x = b THEN bytes ELSE h[x]]

NoAlloc == [r \in {} |-> 0]
NoLocals == [r \in {} |-> <<>>]

Call(op, e, arg, out, key, wasDestroyed, alloc, locals) ==
    [op |-> op, e |-> e, arg |-> arg, out |-> out, key |-> key,
     wasDestroyed |-> wasDestroyed, alloc |-> alloc, locals |-> locals]

\* the service objects: SheetsService, StravaService, WeeklySummaryService
Services == {"sheets", "strava", "weekly"}

\* the service layer before any call: process.env is that of the deployed
\* app, the clock (ms) is at its origin, StravaService holds no token
\* (summaries are the rows under the header of the Week Summary sheet;
\* token.text is the decimal string tokenExpiresAt decrypts to,
\* token.expiresAt the time in ms at which Strava stops accepting the
\* token), #isTokenExpired was not called, each #encryption field is null, no
\* engine was constructed by a wrapper, the Daily sheet holds its header
\* row only (rows are the rows under the header, by activity id)
AppInit ==
    [env |-> DeployedEnv, field |-> [s \in Services |-> 0], made |-> <<>>,
     calls |-> <<>>, rows |-> <<>>, summaries |-> <<>>,
     now |-> 0,
     token |-> [present |-> FALSE, text |-> <<>>, expiresAt |-> 0],
     check |-> [done |-> FALSE, result |-> FALSE]]

Init ==
    /\ engine = [e \in Engines |-> NoEngine]
    /\ heap = [b \in {} |-> <<>>]
    /\ held = {}
    /\ rng = 0
    /\ gcmTags = {}
    /\ store = <<>>
    /\ last = Call("none", 0, <<>>, Returned(<<>>), NullBuf, FALSE, NoAlloc, NoLocals)
    /\ app = AppInit

(* ------------------------------------------------------------------ *)
(* constructor / #setMasterKey                                          *)
(* ------------------------------------------------------------------ *)

\* a name built from the source as given
EnvVarNameAsGiven(source) == source \o "_ENCRYPTION_KEY"

\* `${source.toUpperCase()}_ENCRYPTION_KEY`
EnvVarName(source) == ToUpperCase(source) \o "_ENCRYPTION_KEY"

\* #setMasterKey(source) under process.env env: the key buffer, or the
\* error thrown
SetMasterKeyIn(env, source) ==
    LET envVarName == EnvVarName(source)
        isSet == envVarName \in DOMAIN env
        envKey == env[envVarName]
    IN IF ~isSet \/ envKey = <<>>
       THEN Thrown(ErrNotSet, "")
       ELSE LET masterKey == Base64Decode(envKey) IN
            IF Len(masterKey) # KeyLength
            THEN Thrown(ErrInvalidFormat, "Invalid key length")
            ELSE Returned(masterKey)

SetMasterKey(source) == SetMasterKeyIn(ProcessEnv, source)

\* new SecureEncryption(source), the object going to slot e
Construct(e, source) ==
    /\ ~engine[e].exists
    /\ \A d \in Engines : d < e => engine[d].exists
    /\ LET r == SetMasterKey(source) IN
        /\ engine' = IF r.ok
                     THEN [engine EXCEPT ![e] =
                            [exists |-> TRUE, masterKey |-> r.val, tempBuffers |-> {},
                             isDestroyed |-> FALSE, props |-> InitialProps]]
                     ELSE engine
        /\ last' = Call("construct", e, source,
                        IF r.ok THEN Returned(<<>>) ELSE r,
                        NullBuf, FALSE, NoAlloc, NoLocals)
    /\ UNCHANGED <<heap, held, rng, gcmTags, store, app>>

(* ------------------------------------------------------------------ *)
(* Buffer bookkeeping; st is [eng |-> engine fields, heap |-> heap]     *)
(* ------------------------------------------------------------------ *)

Write(h, b, bytes) == [h EXCEPT ![b] = bytes]

\* createTempBuffer(size): what it throws, "" when it returns
CreateTempBufferError(st, size) ==
    IF st.eng.isDestroyed THEN ErrDestroyed
    ELSE IF size < 0 THEN "ERR_OUT_OF_RANGE"
    ELSE ""

\* a createTempBuffer without this.#tempBuffers.add(buffer)
CreateTempBufferUntracked(st, size) ==
    [eng |-> st.eng,
     heap |-> Extend(st.heap, NewId(st.heap), Zero(size)),
     buf |-> NewId(st.heap)]

\* createTempBuffer(size) when it returns: buf is the new zero-filled buffer
CreateTempBufferOp(st, size) ==
    LET b == NewId(st.heap) IN
    [eng |-> [st.eng EXCEPT !.tempBuffers = @ \cup {b}],
     heap |-> Extend(st.heap, b, Zero(size)),
     buf |-> b]

\* the frame of a call on engine fields eng with heap h: alloc maps the
\* call's local variables to the buffers they name
Frame(eng, h) == [eng |-> eng, heap |-> h, alloc |-> NoAlloc]

\* const <name> = this.createTempBuffer(size)
CreateLocal(st, name, size) ==
    LET c == CreateTempBufferOp(st, size) IN
    [eng |-> c.eng, heap |-> c.heap,
     alloc |-> [r \in DOMAIN st.alloc \cup {name} |-> IF r = name THEN c.buf ELSE st.alloc[r]]]

\* a clearBuffer that fills the buffer and leaves it in the set
ClearBufferKeepsTracked(st, b) ==
    [eng |-> st.eng, heap |-> Write(st.heap, b, Zero(Len(st.heap[b])))]

\* a clearBuffer that drops the buffer from the set without filling it
ClearBufferUnfilled(st, b) ==
    [eng |-> [st.eng EXCEPT !.tempBuffers = @ \ {b}], heap |-> st.heap]

\* clearBuffer(buffer) for a Buffer b
ClearBufferOp(st, b) ==
    [eng |-> [st.eng EXCEPT !.tempBuffers = @ \ {b}],
     heap |-> Write(st.heap, b, Zero(Len(st.heap[b])))]

\* a clearAllTempBuffers that empties the set without filling the buffers
ForgetAllTempBuffers(st) ==
    [eng |-> [st.eng EXCEPT !.tempBuffers = {}], heap |-> st.heap]

\* a clearAllTempBuffers over a set shared by all instances: it fills
\* every buffer there is
ClearSharedTempBuffers(st) ==
    [eng |-> [st.eng EXCEPT !.tempBuffers = {}],
     heap |-> [b \in DOMAIN st.heap |-> Zero(Len(st.heap[b]))]]

\* clearAllTempBuffers()
ClearAllTempBuffersOp(st) ==
    [eng |-> [st.eng EXCEPT !.tempBuffers = {}],
     heap |-> [b \in DOMAIN st.heap |->
                 IF b \in st.eng.tempBuffers THEN Zero(Len(st.heap[b])) ELSE st.heap[b]]]

\* a #deriveKey that hands pbkdf2Sync the salt in place of the master key
DeriveKeyFromSalt(st, saltBuffer) ==
    LET c == CreateLocal(st, "derivedKey", KeyLength) IN
    [eng |-> c.eng,
     heap |-> Write(c.heap, c.alloc.derivedKey,
                    Pbkdf2Sync(st.heap[saltBuffer], st.heap[saltBuffer])),
     alloc |-> c.alloc,
     raw |-> Zero(KeyLength)]

\* #deriveKey(saltBuffer): buf is the tracked derivedKeyBuffer; raw is the
\* buffer pbkdf2Sync returned, after derivedKey.fill(0)
DeriveKey(st, saltBuffer) ==
    LET c == CreateLocal(st, "derivedKey", KeyLength) IN
    [eng |-> c.eng,
     heap |-> Write(c.heap, c.alloc.derivedKey,
                    Pbkdf2Sync(st.eng.masterKey, st.heap[saltBuffer])),
     alloc |-> c.alloc,
     raw |-> Zero(KeyLength)]

(* ------------------------------------------------------------------ *)
(* encrypt                                                              *)
(* ------------------------------------------------------------------ *)

\* arguments of encrypt: strings (UTF-16 code units) and other values
Str(s) == [type |-> "string", val |-> s]
NonString(t) == [type |-> t, val |-> <<>>]

\* "", "A" "e-acute" "euro sign" U+1F600 (1, 2, 3 and 4 bytes of UTF-8, the
\* last a surrogate pair), a lone high surrogate
Token == <<65, 233, 8364, 55357, 56832>>
Plaintexts == {<<>>, Token, <<55357>>}
NonStringTypes == {"undefined", "null", "number"}
EncryptArgs == {Str(s) : s \in Plaintexts} \cup {NonString(t) : t \in NonStringTypes}

\* library calls of encrypt that a fault may make throw
EncryptFaults == {"randomFillSync", "pbkdf2Sync", "createCipheriv"}

\* crypto.randomFillSync(saltBuffer), the k-th draw
FillSalt(h, saltBuffer, k) == Write(h, saltBuffer, RandomBytes(SaltLength, k))

\* an encrypt that leaves ivBuffer as allocated
FillIvSkipped(h, ivBuffer, k) == h

\* crypto.randomFillSync(ivBuffer), the k-th draw
FillIv(h, ivBuffer, k) == Write(h, ivBuffer, RandomBytes(IvLength, k))

\* an encrypt without the check of lines 45-47
EncryptNeverSeesDestroyed(eng) == FALSE

\* encrypt: the if (this.#isDestroyed) of lines 45-47
EncryptSeesDestroyed(eng) == eng.isDestroyed

\* the catch block of encrypt: clearAllTempBuffers, then the wrapped error
EncryptCatch(st, draws, tags, why, locals) ==
    LET c == ClearAllTempBuffersOp(st) IN
    [eng |-> c.eng, heap |-> c.heap, rng |-> draws, tags |-> tags,
     out |-> Thrown(ErrEncryptionFailed, why), alloc |-> st.alloc, locals |-> locals]

\* encrypt from createCipheriv to the return; st holds the derived key
EncryptCipher(st, draws, tags, fault) ==
    IF fault = "createCipheriv"
    THEN EncryptCatch(st, draws, tags, fault, [r \in {"pbkdf2"} |-> st.raw])
    ELSE
    LET key == st.heap[st.alloc.derivedKey]
        iv == st.heap[st.alloc.iv]
        encrypted == CipherUpdate(key, iv, st.heap[st.alloc.plaintext])
        authTag == GetAuthTag(tags, key, iv, encrypted)
        cleared == ClearBufferOp(ClearBufferOp(st, st.alloc.plaintext), st.alloc.derivedKey)
    IN [eng |-> cleared.eng, heap |-> cleared.heap, rng |-> draws,
        tags |-> tags \cup {[key |-> key, iv |-> iv, ct |-> encrypted, tag |-> authTag]},
        out |-> Returned(Base64Encode(
                    Concat(Concat(st.heap[st.alloc.salt], iv), Concat(authTag, encrypted)))),
        alloc |-> st.alloc, locals |-> [r \in {"pbkdf2"} |-> st.raw]]

\* encrypt: const derivedKey = this.#deriveKey(saltBuffer)
EncryptDerive(st, draws, tags, fault) ==
    IF fault = "pbkdf2Sync"
    THEN EncryptCatch(CreateLocal(st, "derivedKey", KeyLength), draws, tags, fault, NoLocals)
    ELSE EncryptCipher(DeriveKey(st, st.alloc.salt), draws, tags, fault)

\* encrypt: the two randomFillSync calls and plaintextBuffer.write
EncryptFill(st, draws, tags, plaintext, fault) ==
    IF fault = "randomFillSync"
    THEN EncryptCatch([st EXCEPT !.heap = FillSalt(@, st.alloc.salt, draws + 1)],
                      draws + 1, tags, fault, NoLocals)
    ELSE EncryptDerive(
            [st EXCEPT !.heap = Write(FillIv(FillSalt(@, st.alloc.salt, draws + 1),
                                             st.alloc.iv, draws + 2),
                                      st.alloc.plaintext, Utf8Encode(plaintext.val))],
            draws + 2, tags, fault)

\* encrypt: createTempBuffer(Buffer.byteLength(plaintext, 'utf8')); st holds
\* saltBuffer and ivBuffer
EncryptPlaintext(st, draws, tags, plaintext, fault) ==
    IF plaintext.type # "string"
    THEN \* Buffer.byteLength throws a TypeError
         EncryptCatch(st, draws, tags, "ERR_INVALID_ARG_TYPE", NoLocals)
    ELSE EncryptFill(CreateLocal(st, "plaintext", Utf8ByteLength(plaintext.val)),
                     draws, tags, plaintext, fault)

\* encrypt(plaintext) on engine fields eng with heap h: the fields and heap
\* at return, the draws made, the tags produced and the outcome; fault names
\* the library call that throws, "none" when none does
EncryptRun(eng, h, draws, tags, arg, fault) ==
    IF EncryptSeesDestroyed(eng)
    THEN [eng |-> eng, heap |-> h, rng |-> draws, tags |-> tags,
          out |-> Thrown(ErrDestroyed, ""), alloc |-> NoAlloc, locals |-> NoLocals]
    ELSE IF CreateTempBufferError(Frame(eng, h), SaltLength) # ""
    THEN EncryptCatch(Frame(eng, h), draws, tags,
                      CreateTempBufferError(Frame(eng, h), SaltLength), NoLocals)
    ELSE EncryptPlaintext(
            CreateLocal(CreateLocal(Frame(eng, h), "salt", SaltLength), "iv", IvLength),
            draws, tags, IF arg.type = "undefined" THEN Str(<<>>) ELSE arg, fault)

\* engine e has run encrypt(arg) with result r; the caller keeps the envelope
EncryptStep(e, arg, r) ==
    /\ r.out.ok => /\ Len(store) < MaxEncrypts
                   /\ Cardinality(engine[e].tempBuffers) <= MaxTracked
    /\ r.rng <= 2 * MaxEncrypts
    /\ engine' = [engine EXCEPT ![e] = r.eng]
    /\ heap' = r.heap
    /\ rng' = r.rng
    /\ gcmTags' = r.tags
    /\ store' = IF r.out.ok
                THEN Append(store, [text |-> r.out.val, by |-> e,
                                    key |-> engine[e].masterKey,
                                    pt |-> IF arg.type = "undefined" THEN <<>> ELSE arg.val])
                ELSE store
    /\ last' = Call("encrypt", e, arg, r.out, engine[e].masterKey,
                    engine[e].isDestroyed, r.alloc, r.locals)
    /\ UNCHANGED <<held, app>>

Encrypt(e, arg) ==
    /\ engine[e].exists
    /\ EncryptStep(e, arg, EncryptRun(engine[e], heap, rng, gcmTags, arg, "none"))

\* an encrypt call during which one library call throws
EncryptFault(e, arg, fault) ==
    /\ engine[e].exists
    /\ fault \in EncryptFaults
    /\ EncryptStep(e, arg, EncryptRun(engine[e], heap, rng, gcmTags, arg, fault))

(* ------------------------------------------------------------------ *)
(* decrypt                                                              *)
(* ------------------------------------------------------------------ *)

\* data.copy(saltBuffer, 0, 0, 32)
ExtractSalt(data) == SubSeq(data, 1, SaltLength)
\* a copy of the iv from one byte too far: data.copy(ivBuffer, 0, 33, 45)
ExtractIvShifted(data) == SubSeq(data, SaltLength + 2, SaltLength + IvLength + 1)
\* data.copy(ivBuffer, 0, 32, 44)
ExtractIv(data) == SubSeq(data, SaltLength + 1, SaltLength + IvLength)
\* data.copy(authTagBuffer, 0, 44, 60)
ExtractAuthTag(data) == SubSeq(data, SaltLength + IvLength + 1, HeaderLength)
\* data.copy(encryptedBuffer, 0, 60)
ExtractEncrypted(data) == SubSeq(data, HeaderLength + 1, Len(data))

\* decrypt: the if (this.#isDestroyed) of lines 91-93
DecryptSeesDestroyed(eng) == eng.isDestroyed

\* a catch block of decrypt that throws the error it caught
DecryptRethrow(st, tags, len, why, locals) ==
    LET c == ClearAllTempBuffersOp(st) IN
    [eng |-> c.eng, heap |-> c.heap, tags |-> tags, len |-> len,
     out |-> Thrown(why, ""), alloc |-> st.alloc, locals |-> locals]

\* a catch block of decrypt that also wipes the master key (clearKey())
DecryptCatchClearsKey(st, tags, len, why, locals) ==
    LET c == ClearAllTempBuffersOp(st) IN
    [eng |-> [c.eng EXCEPT !.masterKey = Zero(KeyLength)], heap |-> c.heap,
     tags |-> tags, len |-> len,
     out |-> Thrown(ErrDecryptionFailed, why), alloc |-> st.alloc, locals |-> locals]

\* the catch block of decrypt: clearAllTempBuffers, then the wrapped error
DecryptCatch(st, tags, len, why, locals) ==
    LET c == ClearAllTempBuffersOp(st) IN
    [eng |-> c.eng, heap |-> c.heap, tags |-> tags, len |-> len,
     out |-> Thrown(ErrDecryptionFailed, why), alloc |-> st.alloc, locals |-> locals]

\* decrypt from createDecipheriv to the return; st holds the derived key
DecryptCipher(st, tags, data) ==
    LET key == st.heap[st.alloc.derivedKey]
        iv == st.heap[st.alloc.iv]
        ct == st.heap[st.alloc.encrypted]
        updated == DecipherUpdate(key, iv, ct)
        cleared == ClearBufferOp(st, st.alloc.derivedKey)
    IN
    IF ~DecipherFinalOk(tags, key, iv, ct, st.heap[st.alloc.authTag])
    THEN \* decipher.final() throws; the bytes update() returned stay as they are
         DecryptCatch(st, tags, Len(data), "unable to authenticate data",
                      [r \in {"pbkdf2", "update"} |-> IF r = "pbkdf2" THEN st.raw ELSE updated])
    ELSE \* decrypted = Buffer.concat([update(), final()]); clearBuffer(decrypted)
         \* fills a buffer the set does not hold
         [eng |-> cleared.eng, heap |-> cleared.heap, tags |-> tags, len |-> Len(data),
          out |-> Returned(Utf8Decode(Concat(updated, <<>>))), alloc |-> st.alloc,
          locals |-> [r \in {"pbkdf2", "update", "decrypted"} |->
                        CASE r = "pbkdf2" -> st.raw [] r = "update" -> updated
                          [] r = "decrypted" -> Zero(Len(updated))]]

\* decrypt: the four data.copy calls and #deriveKey(saltBuffer)
DecryptCopy(st, tags, data) ==
    DecryptCipher(
        DeriveKey([st EXCEPT !.heap =
                      Write(Write(Write(Write(@,
                          st.alloc.salt, ExtractSalt(data)),
                          st.alloc.iv, ExtractIv(data)),
                          st.alloc.authTag, ExtractAuthTag(data)),
                          st.alloc.encrypted, ExtractEncrypted(data))],
                  st.alloc.salt),
        tags, data)

\* decrypt: createTempBuffer(data.length - 60); st holds saltBuffer, ivBuffer
\* and authTagBuffer
DecryptEncrypted(st, tags, data) ==
    IF CreateTempBufferError(st, Len(data) - HeaderLength) # ""
    THEN DecryptCatch(st, tags, Len(data),
                      CreateTempBufferError(st, Len(data) - HeaderLength), NoLocals)
    ELSE DecryptCopy(CreateLocal(st, "encrypted", Len(data) - HeaderLength), tags, data)

\* decrypt of the decoded bytes data
DecryptData(eng, h, tags, data) ==
    IF CreateTempBufferError(Frame(eng, h), SaltLength) # ""
    THEN DecryptCatch(Frame(eng, h), tags, Len(data),
                      CreateTempBufferError(Frame(eng, h), SaltLength), NoLocals)
    ELSE DecryptEncrypted(
            CreateLocal(CreateLocal(CreateLocal(Frame(eng, h),
                "salt", SaltLength), "iv", IvLength), "authTag", TagLength),
            tags, data)

\* decrypt(encryptedData) on engine fields eng with heap h; input is
\* [type, val]: a string of base64 text, or a value of another type
DecryptRun(eng, h, tags, input) ==
    IF DecryptSeesDestroyed(eng)
    THEN [eng |-> eng, heap |-> h, tags |-> tags, len |-> -1,
          out |-> Thrown(ErrDestroyed, ""), alloc |-> NoAlloc, locals |-> NoLocals]
    ELSE IF input.type # "string"
    THEN \* Buffer.from(value, 'base64') throws a TypeError
         DecryptCatch(Frame(eng, h), tags, -1, "ERR_INVALID_ARG_TYPE", NoLocals)
    ELSE DecryptData(eng, h, tags, Base64Decode(input.val))

\* data with byte pos replaced by b
WithByte(data, pos, b) == [data EXCEPT ![pos] = b]

\* base64 text with byte pos of its decoded form moved by d
Tamper(text, pos, d) ==
    LET data == Base64Decode(text) IN
    Base64Encode(WithByte(data, pos, (data[pos] + d) % 256))

\* positions of a decoded envelope of length n at which the caller's copy
\* gets modified: every byte of the salt, iv, tag and ciphertext
TamperPositions(n) == 1..n

\* what a modified byte becomes: old + d mod 256
TamperDeltas == {1, 255}

\* region of a decoded envelope that byte pos lies in
Region(pos) ==
    IF pos <= SaltLength THEN "salt"
    ELSE IF pos <= SaltLength + IvLength THEN "iv"
    ELSE IF pos <= HeaderLength THEN "tag"
    ELSE "ciphertext"

\* base64 text that is no envelope: empty, characters outside the alphabet
\* only, 59 and 60 zero bytes, a pad first
MalformedTexts ==
    {<<>>, <<Illegal, Illegal, Illegal>>, Base64Encode(Zero(HeaderLength - 1)),
     Base64Encode(Zero(HeaderLength)), <<Pad>> \o Base64Encode(Zero(HeaderLength))}

\* what the model knows of the value handed to decrypt: its kind, the
\* stored envelope idx it comes from, the region modified
DecryptArg(kind, idx, region, type) ==
    [kind |-> kind, idx |-> idx, region |-> region, type |-> type, len |-> -1]

\* engine e has run decrypt with result r
DecryptStep(e, arg, r) ==
    /\ r.out.ok => Cardinality(engine[e].tempBuffers) <= MaxTracked
    /\ engine' = [engine EXCEPT ![e] = r.eng]
    /\ heap' = r.heap
    /\ gcmTags' = r.tags
    /\ last' = Call("decrypt", e, [arg EXCEPT !.len = r.len], r.out, engine[e].masterKey,
                    engine[e].isDestroyed, r.alloc, r.locals)
    /\ UNCHANGED <<held, rng, store, app>>

\* decrypt of an envelope the caller got from encrypt
DecryptStored(e, i) ==
    /\ engine[e].exists
    /\ i \in 1..Len(store)
    /\ DecryptStep(e, DecryptArg("stored", i, "", "string"),
                   DecryptRun(engine[e], heap, gcmTags, Str(store[i].text)))

\* decrypt of a stored envelope with one byte of its decoded form modified
DecryptTampered(e, i) ==
    /\ engine[e].exists
    /\ i \in 1..Len(store)
    /\ \E pos \in TamperPositions(Len(Base64Decode(store[i].text))), d \in TamperDeltas :
          DecryptStep(e, DecryptArg("tampered", i, Region(pos), "string"),
                      DecryptRun(engine[e], heap, gcmTags,
                                 Str(Tamper(store[i].text, pos, d))))

\* decrypt of text that is no envelope
DecryptMalformed(e, text) ==
    /\ engine[e].exists
    /\ DecryptStep(e, DecryptArg("malformed", 0, "", "string"),
                   DecryptRun(engine[e], heap, gcmTags, Str(text)))

\* decrypt of a value that is no string
DecryptNonString(e, t) ==
    /\ engine[e].exists
    /\ DecryptStep(e, DecryptArg("nonstring", 0, "", t),
                   DecryptRun(engine[e], heap, gcmTags, NonString(t)))

(* ------------------------------------------------------------------ *)
(* The public bookkeeping methods, clearKey, destroy                    *)
(* ------------------------------------------------------------------ *)

\* sizes the caller asks createTempBuffer for
TempSizes == {0, 2}

\* engine e runs createTempBuffer(size); the caller holds the buffer returned
CreateTempBuffer(e, size) ==
    /\ engine[e].exists
    /\ LET st == [eng |-> engine[e], heap |-> heap]
           err == CreateTempBufferError(st, size)
           c == CreateTempBufferOp(st, size)
       IN IF err # ""
          THEN /\ last' = Call("createTempBuffer", e, size, Thrown(err, ""), engine[e].masterKey,
                               engine[e].isDestroyed, NoAlloc, NoLocals)
               /\ UNCHANGED <<engine, heap, held>>
          ELSE /\ Cardinality(held) < MaxHeld
               /\ Cardinality(engine[e].tempBuffers) <= MaxTracked
               /\ engine' = [engine EXCEPT ![e] = c.eng]
               /\ heap' = c.heap
               /\ held' = held \cup {c.buf}
               /\ last' = Call("createTempBuffer", e, size, Returned(<<c.buf>>),
                               engine[e].masterKey, engine[e].isDestroyed,
                               [r \in {"buffer"} |-> c.buf], NoLocals)
    /\ UNCHANGED <<rng, gcmTags, store, app>>

\* the caller writes into a buffer it holds
CallerWrite(b) ==
    /\ b \in held
    /\ Len(heap[b]) > 0
    /\ IsZero(heap[b])
    /\ heap' = Write(heap, b, [i \in 1..Len(heap[b]) |-> 255])
    /\ last' = Call("write", 0, b, Returned(<<>>), NullBuf, FALSE, NoAlloc, NoLocals)
    /\ UNCHANGED <<engine, held, rng, gcmTags, store, app>>

\* engine e runs clearBuffer(b) on a buffer the caller holds; the call
\* record keeps the bytes b held before (locals.before) and, when b was a
\* member of the set, b itself (alloc.buffer)
ClearBuffer(e, b) ==
    /\ engine[e].exists
    /\ b \in held
    /\ LET c == ClearBufferOp([eng |-> engine[e], heap |-> heap], b) IN
        /\ engine' = [engine EXCEPT ![e] = c.eng]
        /\ heap' = c.heap
    /\ last' = Call("clearBuffer", e, b, Returned(<<>>), engine[e].masterKey,
                    engine[e].isDestroyed,
                    IF b \in engine[e].tempBuffers
                    THEN [r \in {"buffer"} |-> b] ELSE NoAlloc,
                    [r \in {"before"} |-> heap[b]])
    /\ UNCHANGED <<held, rng, gcmTags, store, app>>

\* engine e runs clearBuffer(null): nothing to fill, nothing to delete
ClearBufferNull(e) ==
    /\ engine[e].exists
    /\ last' = Call("clearBuffer", e, 0, Returned(<<>>), engine[e].masterKey,
                    engine[e].isDestroyed, NoAlloc, NoLocals)
    /\ UNCHANGED <<engine, heap, held, rng, gcmTags, store, app>>

\* engine e runs clearAllTempBuffers()
ClearAllTempBuffers(e) ==
    /\ engine[e].exists
    /\ LET c == ClearAllTempBuffersOp([eng |-> engine[e], heap |-> heap]) IN
        /\ engine' = [engine EXCEPT ![e] = c.eng]
        /\ heap' = c.heap
    /\ last' = Call("clearAllTempBuffers", e, <<>>, Returned(<<>>), engine[e].masterKey,
                    engine[e].isDestroyed, NoAlloc, NoLocals)
    /\ UNCHANGED <<held, rng, gcmTags, store, app>>

\* a clearKey that installs a fresh zero-filled key buffer
ClearKeyRealloc(eng) == [eng EXCEPT !.masterKey = Zero(KeyLength)]

\* clearKey(): the key buffer is zero-filled in place and stays the key
ClearKeyOp(eng) ==
    IF eng.masterKey # NullBuf
    THEN [eng EXCEPT !.masterKey = Zero(Len(@))]
    ELSE eng

ClearKey(e) ==
    /\ engine[e].exists
    /\ engine' = [engine EXCEPT ![e] = ClearKeyOp(@)]
    /\ last' = Call("clearKey", e, <<>>, Returned(<<>>), engine[e].masterKey,
                    engine[e].isDestroyed, NoAlloc, NoLocals)
    /\ UNCHANGED <<heap, held, rng, gcmTags, store, app>>

\* a destroy without the Object.keys loop: the instance fields keep their values
DestroyKeepsFields(st) ==
    LET c == ClearAllTempBuffersOp([eng |-> [st.eng EXCEPT !.masterKey = NullBuf],
                                    heap |-> st.heap])
    IN [eng |-> [c.eng EXCEPT !.isDestroyed = TRUE], heap |-> c.heap,
        key |-> IF st.eng.masterKey # NullBuf
                THEN Zero(Len(st.eng.masterKey)) ELSE NullBuf,
        err |-> ""]

\* destroy() past its first line, on [eng, heap]; key is the master-key
\* buffer after the call (zero-filled before the field is set to null)
DestroyBody(st) ==
    LET wiped == IF st.eng.masterKey # NullBuf
                 THEN Zero(Len(st.eng.masterKey)) ELSE NullBuf
        e1 == [st.eng EXCEPT !.masterKey = NullBuf]
        c == ClearAllTempBuffersOp([eng |-> e1, heap |-> st.heap])
        e2 == [c.eng EXCEPT !.props = [k \in DOMAIN @ |-> NullProp]]
    IN [eng |-> [e2 EXCEPT !.isDestroyed = TRUE], heap |-> c.heap, key |-> wiped, err |-> ""]

\* a destroy with neither the early return nor the null check of the key:
\* this.#masterKey.fill(0) on null throws a TypeError
DestroyUnguarded(st) ==
    IF st.eng.masterKey = NullBuf
    THEN [eng |-> st.eng, heap |-> st.heap, key |-> NullBuf, err |-> "TypeError"]
    ELSE DestroyBody(st)

\* destroy(): nothing happens on a destroyed engine
DestroyOp(st) ==
    IF st.eng.isDestroyed
    THEN [eng |-> st.eng, heap |-> st.heap, key |-> NullBuf, err |-> ""]
    ELSE DestroyBody(st)

DestroyStep(op, e, r) ==
    /\ engine' = [engine EXCEPT ![e] = r.eng]
    /\ heap' = r.heap
    /\ last' = Call(op, e, <<>>, IF r.err = "" THEN Returned(<<>>) ELSE Thrown(r.err, ""),
                    engine[e].masterKey, engine[e].isDestroyed, NoAlloc,
                    [x \in {"masterKey"} |-> r.key])
    /\ UNCHANGED <<held, rng, gcmTags, store, app>>

Destroy(e) ==
    /\ engine[e].exists
    /\ DestroyStep("destroy", e, DestroyOp([eng |-> engine[e], heap |-> heap]))

\* a dispose method with an empty body
DisposeNothing(st) == [eng |-> st.eng, heap |-> st.heap, key |-> NullBuf, err |-> ""]

\* [Symbol.dispose]()
DisposeOp(st) == DestroyOp(st)

Dispose(e) ==
    /\ engine[e].exists
    /\ DestroyStep("dispose", e, DisposeOp([eng |-> engine[e], heap |-> heap]))

(* ------------------------------------------------------------------ *)
(* Specifications                                                       *)
(* ------------------------------------------------------------------ *)

\* the caller takes the outcome of the call; buffers nothing references are collected
Return ==
    /\ last.op # "none"
    /\ last' = Call("none", 0, <<>>, Returned(<<>>), NullBuf, FALSE, NoAlloc, NoLocals)
    /\ heap' = Collected
    /\ UNCHANGED <<engine, held, rng, gcmTags, store, app>>

Idle == last.op = "none"

\* one engine: construction from every source, encrypt and decrypt of
\* every input, destroy
Next ==
    \/ Return
    \/ Idle /\ \E s \in Sources \ {"sheets"} : Construct(1, s)
    \/ Idle /\ \E a \in EncryptArgs : Encrypt(1, a)
    \/ Idle /\ \E i \in 1..MaxEncrypts : DecryptStored(1, i)
    \/ Idle /\ \E i \in 1..MaxEncrypts : DecryptTampered(1, i)
    \/ Idle /\ \E t \in MalformedTexts : DecryptMalformed(1, t)
    \/ Idle /\ \E t \in NonStringTypes : DecryptNonString(1, t)
    \/ Idle /\ Destroy(1)

Spec == Init /\ [][Next]_vars

\* the same with library calls of encrypt that throw
NextFault ==
    \/ Return
    \/ Idle /\ Construct(1, "Strava")
    \/ Idle /\ \E a \in {Str(Token), NonString("null")} : Encrypt(1, a)
    \/ Idle /\ \E f \in EncryptFaults : EncryptFault(1, Str(Token), f)
    \/ Idle /\ \E i \in 1..MaxEncrypts : DecryptStored(1, i)
    \/ Idle /\ \E i \in 1..MaxEncrypts : DecryptTampered(1, i)
    \/ Idle /\ \E t \in MalformedTexts : DecryptMalformed(1, t)
    \/ Idle /\ \E t \in NonStringTypes : DecryptNonString(1, t)

SpecFault == Init /\ [][NextFault]_vars

\* one engine, every public method
NextOps ==
    \/ Return
    \/ Idle /\ \E s \in {"Strava", "garmin"} : Construct(1, s)
    \/ Idle /\ \E a \in {Str(Token), NonString("null")} : Encrypt(1, a)
    \/ Idle /\ \E i \in 1..MaxEncrypts : DecryptStored(1, i)
    \/ Idle /\ DecryptMalformed(1, <<>>)
    \/ Idle /\ \E n \in TempSizes : CreateTempBuffer(1, n)
    \/ Idle /\ \E b \in held : CallerWrite(b)
    \/ Idle /\ \E b \in held : ClearBuffer(1, b)
    \/ Idle /\ ClearBufferNull(1)
    \/ Idle /\ ClearAllTempBuffers(1)
    \/ Idle /\ ClearKey(1)
    \/ Idle /\ Destroy(1)
    \/ Idle /\ Dispose(1)

SpecOps == Init /\ [][NextOps]_vars

\* two engines side by side
NextPair ==
    \/ Return
    \/ Idle /\ Construct(1, "Strava")
    \/ Idle /\ \E s \in {"Strava", "sheets"} : Construct(2, s)
    \/ Idle /\ \E e \in Engines : Len(store) < MaxPairEncrypts /\ Encrypt(e, Str(Token))
    \/ Idle /\ \E e \in Engines, i \in 1..MaxEncrypts : DecryptStored(e, i)
    \/ Idle /\ \E e \in Engines : ClearKey(e)
    \/ Idle /\ \E e \in Engines : ClearAllTempBuffers(e)
    \/ Idle /\ \E e \in Engines : Destroy(e)

SpecPair == Init /\ [][NextPair]_vars

(* ------------------------------------------------------------------ *)
(* The services: safeCall / safeAsyncCall around one engine per call    *)
(* app.field[s] is the #encryption field of service s (0 for null, else *)
(* an index into app.made, the engines the wrappers constructed);       *)
(* app.calls are the wrapper invocations, in the order they started     *)
(* ------------------------------------------------------------------ *)

\* the invocations started in one run
MaxCalls == 3

\* the #source field of a service
ServiceSource(s) ==
    CASE s = "sheets" -> "sheets"
      [] s = "strava" -> "strava"
      [] s = "weekly" -> "huggingface"

\* the engine variables, which no step of a service changes
engineVars == <<engine, heap, held, rng, gcmTags, store, last>>

\* try { this.#encryption = new SecureEncryption(this.#source): a new
\* invocation record; when the constructor throws the field keeps what it
\* held and own is 0
WrapperEnter(a, s, func, batch, parent) ==
    LET r == SetMasterKeyIn(a.env, ServiceSource(s))
        id == Len(a.made) + 1
    IN [a EXCEPT
          !.made = IF r.ok
                   THEN Append(@, [exists |-> TRUE, masterKey |-> r.val, tempBuffers |-> {},
                                   isDestroyed |-> FALSE, props |-> InitialProps])
                   ELSE @,
          !.field[s] = IF r.ok THEN id ELSE @,
          !.calls = Append(@, [service |-> s, func |-> func, pc |-> "entered",
                               own |-> IF r.ok THEN id ELSE 0,
                               out |-> IF r.ok THEN Returned(<<>>) ELSE r,
                               batch |-> batch, rows |-> <<>>, parent |-> parent])]

\* finally { this.#encryption.destroy() } of invocation c, whose body ended
\* with out: destroy() of the engine the field holds now; on a null field
\* the property access throws a TypeError, which replaces out
WrapperFinally(a, c, out) ==
    LET f == a.field[a.calls[c].service] IN
    IF f = 0
    THEN [a EXCEPT !.calls[c].pc = "threw", !.calls[c].out = Thrown("TypeError", "")]
    ELSE [a EXCEPT !.made[f] = DestroyOp(Frame(@, [b \in {} |-> <<>>])).eng,
                   !.calls[c].pc = IF out.ok THEN "returned" ELSE "threw",
                   !.calls[c].out = out]

\* this.#encryption.decrypt(secret) in service s throws: the engine the
\* field holds is destroyed (the secrets of tokens.json are envelopes made
\* under the key of the service)
FieldDestroyed(a, s) == DecryptSeesDestroyed(a.made[a.field[s]])

\* no invocation is between its start and its end
Quiet == \A c \in 1..Len(app.calls) : app.calls[c].pc \in {"returned", "threw"}

(* ----- SheetsService.appendActivities ------------------------------ *)

\* the activity ids of a run, and the longest batch
ActivityIds == {1, 2}
MaxBatch == 2

Batches ==
    {<<>>} \cup UNION {[1..n -> ActivityIds] : n \in 1..MaxBatch}

\* activity.id.toString(), which is also how values.get renders the id
\* cell of a row
IdToString(id) == CASE id = 1 -> "1" [] id = 2 -> "2" [] id = 3 -> "3"

\* #appendActivities from the value of existingIds to the append request
AppendFilter(a, c, existingIds) ==
    LET newActivities ==
            SelectSeq(a.calls[c].batch, LAMBDA id : IdToString(id) \notin existingIds)
    IN IF newActivities = <<>>
       THEN WrapperFinally(a, c, Returned(<<>>))
       ELSE IF FieldDestroyed(a, "sheets")
       THEN \* decrypt(this.sheetsId) throws; the catch block throws it on
            WrapperFinally(a, c, Thrown(ErrDestroyed, ""))
       ELSE [a EXCEPT !.calls[c].pc = "append", !.calls[c].rows = newActivities]

\* #appendActivities of invocation c up to its first request
AppendBody(a, c) ==
    IF a.calls[c].own = 0
    THEN WrapperFinally(a, c, a.calls[c].out)
    ELSE IF a.calls[c].batch = <<>>
    THEN WrapperFinally(a, c, Returned(<<>>))
    ELSE IF FieldDestroyed(a, "sheets")
    THEN \* #getExistingActivities catches the error of decrypt and returns []
         AppendFilter(a, c, {})
    ELSE [a EXCEPT !.calls[c].pc = "get"]

\* appendActivities(batch) is called
AppendActivities(batch) ==
    /\ Len(app.calls) < MaxCalls
    /\ app' = AppendBody(WrapperEnter(app, "sheets", "#appendActivities", batch, 0),
                         Len(app.calls) + 1)
    /\ UNCHANGED engineVars

\* values.get of Daily!A:A answers invocation c: the id column under the
\* header row, or an error, which #getExistingActivities turns into []
GetExistingResponds(c, ok) ==
    /\ app.calls[c].func = "#appendActivities"
    /\ app.calls[c].pc = "get"
    /\ app' = AppendFilter(app, c,
                  IF ok THEN {IdToString(app.rows[i]) : i \in 1..Len(app.rows)} ELSE {})
    /\ UNCHANGED engineVars

\* values.append answers invocation c: the rows are in the sheet, or an
\* error
AppendResponds(c, ok) ==
    /\ app.calls[c].func = "#appendActivities"
    /\ app.calls[c].pc = "append"
    /\ app' = IF ok
              THEN WrapperFinally([app EXCEPT !.rows = @ \o app.calls[c].rows],
                                  c, Returned(<<>>))
              ELSE WrapperFinally(app, c, Thrown("append", ""))
    /\ UNCHANGED engineVars

\* the Daily sheet under appendActivities calls that may overlap
NextSheets ==
    \/ \E b \in Batches : AppendActivities(b)
    \/ \E c \in 1..Len(app.calls), ok \in BOOLEAN : GetExistingResponds(c, ok)
    \/ \E c \in 1..Len(app.calls), ok \in BOOLEAN : AppendResponds(c, ok)

SpecSheets == Init /\ [][NextSheets]_vars

(* ----- the synchronous wrappers ------------------------------------ *)

\* the body of a safeCall: #setAuth of SheetsService and #isTokenExpired of
\* StravaService decrypt stored secrets and return
SafeCallBody(a, c) ==
    IF a.calls[c].own = 0
    THEN WrapperFinally(a, c, a.calls[c].out)
    ELSE IF FieldDestroyed(a, a.calls[c].service)
    THEN WrapperFinally(a, c, Thrown(ErrDestroyed, ""))
    ELSE WrapperFinally(a, c, Returned(<<>>))

\* safeCall('#setAuth') of SheetsService, safeCall('#isTokenExpired') of
\* StravaService
SafeCall(s, func) ==
    /\ Len(app.calls) < MaxCalls
    /\ app' = SafeCallBody(WrapperEnter(app, s, func, <<>>, 0), Len(app.calls) + 1)
    /\ UNCHANGED engineVars

(* ----- StravaService.getActivities --------------------------------- *)

\* the answers of the Strava API to GET /athlete/activities
Statuses == {200, 401, 500}

\* #getActivities: the try block up to axios.get
GetRequest(a, c) ==
    IF FieldDestroyed(a, "strava")
    THEN \* decrypt(this.accessToken) throws; the error has no response, so
         \* the catch block throws it on
         WrapperFinally(a, c, Thrown(ErrDestroyed, ""))
    ELSE [a EXCEPT !.calls[c].pc = "get"]

\* #refreshAccessToken up to axios.post; next is the pc of the invocation
\* while the request is pending
RefreshRequest(a, c, next) ==
    IF FieldDestroyed(a, "strava")
    THEN WrapperFinally(a, c, Thrown(ErrDestroyed, ""))
    ELSE [a EXCEPT !.calls[c].pc = next]

\* #getActivities of invocation c up to its first request; expired is what
\* #isTokenExpired() returns
GetActivitiesBody(a, c, expired) ==
    IF a.calls[c].own = 0
    THEN WrapperFinally(a, c, a.calls[c].out)
    ELSE IF FieldDestroyed(a, "strava")
    THEN WrapperFinally(a, c, Thrown(ErrDestroyed, ""))
    ELSE IF expired
    THEN RefreshRequest(a, c, "refresh")
    ELSE GetRequest(a, c)

\* getActivities(page, perPage) is called
GetActivities(expired) ==
    /\ Len(app.calls) < MaxCalls
    /\ app' = GetActivitiesBody(WrapperEnter(app, "strava", "#getActivities", <<>>, 0),
                                Len(app.calls) + 1, expired)
    /\ UNCHANGED engineVars

\* axios.post of #refreshAccessToken answers invocation c: the three
\* encrypt calls and the saveTokens request, or the error thrown on (no
\* catch block on its way handles an error without a 401 response)
RefreshResponds(c, ok) ==
    /\ app.calls[c].func = "#getActivities"
    /\ app.calls[c].pc \in {"refresh", "retry", "detailsRefresh"}
    /\ app' = IF ~ok
              THEN WrapperFinally(app, c, Thrown("refresh", ""))
              ELSE IF EncryptSeesDestroyed(app.made[app.field["strava"]])
              THEN WrapperFinally(app, c, Thrown(ErrDestroyed, ""))
              ELSE [app EXCEPT !.calls[c].pc =
                        CASE app.calls[c].pc = "refresh" -> "save"
                          [] app.calls[c].pc = "retry" -> "retrySave"
                          [] app.calls[c].pc = "detailsRefresh" -> "detailsSave"]
    /\ UNCHANGED engineVars

\* saveTokens of the first refresh answers invocation c, which goes on to
\* axios.get
SaveResponds(c, ok) ==
    /\ app.calls[c].func = "#getActivities"
    /\ app.calls[c].pc = "save"
    /\ app' = IF ok THEN GetRequest(app, c)
              ELSE WrapperFinally(app, c, Thrown("saveTokens", ""))
    /\ UNCHANGED engineVars

\* saveTokens of the refresh in the catch block answers invocation c:
\* return this.getActivities(page, perPage), a new invocation of
\* safeAsyncCall which c awaits
RetrySaveResponds(c, ok, expired) ==
    /\ app.calls[c].func = "#getActivities"
    /\ app.calls[c].pc = "retrySave"
    /\ ok => Len(app.calls) < MaxCalls
    /\ app' = IF ok
              THEN GetActivitiesBody(
                      WrapperEnter([app EXCEPT !.calls[c].pc = "inner"],
                                   "strava", "#getActivities", <<>>, c),
                      Len(app.calls) + 1, expired)
              ELSE WrapperFinally(app, c, Thrown("saveTokens", ""))
    /\ UNCHANGED engineVars

\* the numbers of activities on a page
PageSizes == {0, 1}

\* #getActivityDetails up to axios.get: when decrypt throws, the catch
\* block returns null and #getActivities goes on to its delay
DetailsRequest(a, c) ==
    IF FieldDestroyed(a, "strava")
    THEN [a EXCEPT !.calls[c].pc = "delay"]
    ELSE [a EXCEPT !.calls[c].pc = "details"]

\* axios.get answers invocation c with a status and a page of n
\* activities: an empty page is returned, the details of the activity of a
\* page are asked for; a 401 on a token #isTokenExpired() says is not
\* expired starts the refresh of the catch block; any other error is
\* thrown on
GetResponds(c, status, expired, n) ==
    /\ app.calls[c].func = "#getActivities"
    /\ app.calls[c].pc = "get"
    /\ status # 200 => n = 0
    /\ app' = IF status = 200 /\ n = 0
              THEN WrapperFinally(app, c, Returned(<<>>))
              ELSE IF status = 200
              THEN DetailsRequest(app, c)
              ELSE IF status = 401 /\ FieldDestroyed(app, "strava")
              THEN WrapperFinally(app, c, Thrown(ErrDestroyed, ""))
              ELSE IF status = 401 /\ ~expired
              THEN RefreshRequest(app, c, "retry")
              ELSE WrapperFinally(app, c, Thrown("get", ""))
    /\ UNCHANGED engineVars

\* axios.get of #getActivityDetails answers invocation c: the details are
\* returned; a 401 starts a refresh, after which #getActivityDetails calls
\* itself; after any other error null is returned
DetailsResponds(c, status) ==
    /\ app.calls[c].func = "#getActivities"
    /\ app.calls[c].pc = "details"
    /\ app' = IF status = 401
              THEN RefreshRequest(app, c, "detailsRefresh")
              ELSE [app EXCEPT !.calls[c].pc = "delay"]
    /\ UNCHANGED engineVars

\* saveTokens of the refresh in #getActivityDetails answers invocation c:
\* return this.#getActivityDetails(activityId)
DetailsSaveResponds(c, ok) ==
    /\ app.calls[c].func = "#getActivities"
    /\ app.calls[c].pc = "detailsSave"
    /\ app' = IF ok THEN DetailsRequest(app, c)
              ELSE WrapperFinally(app, c, Thrown("saveTokens", ""))
    /\ UNCHANGED engineVars

\* the 200 ms timer after the details of the last activity of the page:
\* the loop ends and the activities are returned
DelayElapses(c) ==
    /\ app.calls[c].func = "#getActivities"
    /\ app.calls[c].pc = "delay"
    /\ app' = WrapperFinally(app, c, Returned(<<>>))
    /\ UNCHANGED engineVars

\* the invocation c awaits has ended: c returns what it returned, or throws
\* what it threw
InnerReturns(c) ==
    /\ app.calls[c].func = "#getActivities"
    /\ app.calls[c].pc = "inner"
    /\ \E d \in 1..Len(app.calls) :
          /\ app.calls[d].parent = c
          /\ app.calls[d].pc \in {"returned", "threw"}
          /\ app' = WrapperFinally(app, c, app.calls[d].out)
    /\ UNCHANGED engineVars

(* ----- WeeklySummaryService.#generateAISummary --------------------- *)

\* #generateAISummary of invocation c up to hf.chatCompletion; short is
\* whether the notes of the prompt have fewer than 50 characters
SummaryBody(a, c, short) ==
    IF a.calls[c].own = 0
    THEN WrapperFinally(a, c, a.calls[c].out)
    ELSE IF short
    THEN WrapperFinally(a, c, Returned(<<>>))
    ELSE IF FieldDestroyed(a, "weekly")
    THEN WrapperFinally(a, c, Thrown(ErrDestroyed, ""))
    ELSE [a EXCEPT !.calls[c].pc = "chat"]

\* safeAsyncCall('#generateAISummary', [prompt]) is called
GenerateAISummary(short) ==
    /\ Len(app.calls) < MaxCalls
    /\ app' = SummaryBody(WrapperEnter(app, "weekly", "#generateAISummary", <<>>, 0),
                          Len(app.calls) + 1, short)
    /\ UNCHANGED engineVars

\* hf.chatCompletion answers invocation c: the text, or the fallback text
\* of the catch block
ChatResponds(c, ok) ==
    /\ app.calls[c].func = "#generateAISummary"
    /\ app.calls[c].pc = "chat"
    /\ app' = WrapperFinally(app, c, Returned(<<>>))
    /\ UNCHANGED engineVars

\* the wrappers of the three services, a call starting only when no other
\* is pending
NextWrappers ==
    \/ Quiet /\ SafeCall("sheets", "#setAuth")
    \/ Quiet /\ SafeCall("strava", "#isTokenExpired")
    \/ Quiet /\ \E b \in Batches : AppendActivities(b)
    \/ \E c \in 1..Len(app.calls), ok \in BOOLEAN : GetExistingResponds(c, ok)
    \/ \E c \in 1..Len(app.calls), ok \in BOOLEAN : AppendResponds(c, ok)
    \/ Quiet /\ \E x \in BOOLEAN : GetActivities(x)
    \/ \E c \in 1..Len(app.calls), ok \in BOOLEAN : RefreshResponds(c, ok)
    \/ \E c \in 1..Len(app.calls), ok \in BOOLEAN : SaveResponds(c, ok)
    \/ \E c \in 1..Len(app.calls), ok, x \in BOOLEAN : RetrySaveResponds(c, ok, x)
    \/ \E c \in 1..Len(app.calls), s \in Statuses, x \in BOOLEAN, n \in PageSizes :
          GetResponds(c, s, x, n)
    \/ \E c \in 1..Len(app.calls), s \in Statuses : DetailsResponds(c, s)
    \/ \E c \in 1..Len(app.calls), ok \in BOOLEAN : DetailsSaveResponds(c, ok)
    \/ \E c \in 1..Len(app.calls) : DelayElapses(c)
    \/ \E c \in 1..Len(app.calls) : InnerReturns(c)
    \/ Quiet /\ \E short \in BOOLEAN : GenerateAISummary(short)
    \/ \E c \in 1..Len(app.calls), ok \in BOOLEAN : ChatResponds(c, ok)

SpecWrappers == Init /\ [][NextWrappers]_vars

\* a pending request, timer or awaited invocation of some invocation is
\* answered
WrapperResponds ==
    \E c \in 1..Len(app.calls) :
        \/ \E ok \in BOOLEAN : GetExistingResponds(c, ok)
        \/ \E ok \in BOOLEAN : AppendResponds(c, ok)
        \/ \E ok \in BOOLEAN : RefreshResponds(c, ok)
        \/ \E ok \in BOOLEAN : SaveResponds(c, ok)
        \/ \E ok, x \in BOOLEAN : RetrySaveResponds(c, ok, x)
        \/ \E s \in Statuses, x \in BOOLEAN, n \in PageSizes : GetResponds(c, s, x, n)
        \/ \E s \in Statuses : DetailsResponds(c, s)
        \/ \E ok \in BOOLEAN : DetailsSaveResponds(c, ok)
        \/ DelayElapses(c)
        \/ InnerReturns(c)
        \/ \E ok \in BOOLEAN : ChatResponds(c, ok)

\* the same wrappers when every request is answered, every timer fires and
\* every continuation runs
SpecWrappersLive == SpecWrappers /\ WF_vars(WrapperResponds)

(* ----- StravaService.#isTokenExpired ------------------------------ *)

\* const fiveMinutesInMs = 5 * 60 * 1000
FiveMinutesInMs == 5 * 60 * 1000

\* the decimal digits of a number, as the code units of its string
RECURSIVE NumberToString(_)
NumberToString(n) ==
    IF n < 10 THEN <<48 + n>> ELSE Append(NumberToString(n \div 10), 48 + (n % 10))

\* the number a string of decimal digits converts to in `text * 1000`
RECURSIVE ToNumber(_)
ToNumber(text) ==
    IF text = <<>> THEN 0
    ELSE ToNumber(SubSeq(text, 1, Len(text) - 1)) * 10 + (text[Len(text)] - 48)

\* Math.abs
Abs(x) == IF x < 0 THEN 0 - x ELSE x

\* #isTokenExpired() at time now (Date.now(), in ms)
IsTokenExpiredOp(token, now) ==
    IF ~token.present THEN TRUE
    ELSE Abs(ToNumber(token.text) * 1000 - now) <= FiveMinutesInMs

\* the readings of the clock in a run (ms from its origin)
Times ==
    {299999, 300000, 300001, 599999, 600000, 600001, 899999, 900000, 900001,
     1199999, 1200000, 1200001}

\* the expires_at values of tokens.json (s from the origin of the clock),
\* as Strava reports them
ExpiresAtSeconds == {600, 900, 1200}

\* the expires_in of a refresh response (s)
ExpiresIn == {600}

\* time passes
SetClock(t) ==
    /\ t > app.now
    /\ app' = [app EXCEPT !.now = t, !.check = [done |-> FALSE, result |-> FALSE]]
    /\ UNCHANGED engineVars

\* new StravaService(): the token of tokens.json, if there is one
LoadTokens(present, s) ==
    /\ app' = [app EXCEPT
                 !.token = IF present
                           THEN [present |-> TRUE, text |-> NumberToString(s),
                                 expiresAt |-> s * 1000]
                           ELSE [present |-> FALSE, text |-> <<>>, expiresAt |-> 0],
                 !.check = [done |-> FALSE, result |-> FALSE]]
    /\ UNCHANGED engineVars

\* #refreshAccessToken after a response with expires_in:
\* this.tokenExpiresAt = encrypt(`${Date.now() + (expires_in * 1000)}`)
RefreshAccessToken(expiresIn) ==
    /\ app' = [app EXCEPT
                 !.token = [present |-> TRUE,
                            text |-> NumberToString(app.now + expiresIn * 1000),
                            expiresAt |-> app.now + expiresIn * 1000],
                 !.check = [done |-> FALSE, result |-> FALSE]]
    /\ UNCHANGED engineVars

\* isTokenExpired() is called
IsTokenExpired ==
    /\ ~app.check.done
    /\ app' = [app EXCEPT !.check = [done |-> TRUE,
                                     result |-> IsTokenExpiredOp(app.token, app.now)]]
    /\ UNCHANGED engineVars

\* the token of StravaService over time
NextToken ==
    \/ \E t \in Times : SetClock(t)
    \/ \E present \in BOOLEAN, s \in ExpiresAtSeconds : LoadTokens(present, s)
    \/ \E x \in ExpiresIn : RefreshAccessToken(x)
    \/ IsTokenExpired

SpecToken == Init /\ [][NextToken]_vars

(* ----- SheetsService: the Week Summary sheet ---------------------- *)

\* the appendWeeklySummary and updateWeeklySummary calls of one run
MaxSummaryCalls == 3

\* the summaryData of a run: week number, year, summary text
Summaries ==
    {[weekNumber |-> 1, year |-> 2025, summary |-> "a"],
     [weekNumber |-> 1, year |-> 2025, summary |-> "b"],
     [weekNumber |-> 2, year |-> 2025, summary |-> "a"],
     [weekNumber |-> 1, year |-> 2026, summary |-> "b"]}

\* a test that compares the week numbers only
SameWeekNumber(row, summaryData) ==
    NumberToString(row.weekNumber) = NumberToString(summaryData.weekNumber)

\* row[0] === summaryData.weekNumber.toString() &&
\* row[1] === summaryData.year.toString(), on a row as values.get renders it
SameWeek(row, summaryData) ==
    /\ NumberToString(row.weekNumber) = NumberToString(summaryData.weekNumber)
    /\ NumberToString(row.year) = NumberToString(summaryData.year)

\* a request of invocation c that needs decrypt(this.sheetsId): pending
\* with pc next, or the error decrypt throws, which the catch block throws on
SheetRequest(a, c, next) ==
    IF FieldDestroyed(a, "sheets")
    THEN WrapperFinally(a, c, Thrown(ErrDestroyed, ""))
    ELSE [a EXCEPT !.calls[c].pc = next]

\* the body of an invocation c whose first step is a request
SheetBody(a, c, next) ==
    IF a.calls[c].own = 0
    THEN WrapperFinally(a, c, a.calls[c].out)
    ELSE SheetRequest(a, c, next)

\* appendWeeklySummary(summaryData) is called (the field batch of the
\* invocation holds summaryData)
AppendWeeklySummary(summaryData) ==
    /\ Len(app.calls) < MaxSummaryCalls
    /\ app' = SheetBody(WrapperEnter(app, "sheets", "#appendWeeklySummary", summaryData, 0),
                        Len(app.calls) + 1, "weekGet")
    /\ UNCHANGED engineVars

\* values.get of Week Summary!A:B answers the #appendWeeklySummary of
\* invocation c: a week that is there is skipped, another is appended
WeekGetResponds(c, ok) ==
    /\ app.calls[c].func \in {"#appendWeeklySummary", "#updateWeeklySummary"}
    /\ app.calls[c].pc = "weekGet"
    /\ app' = IF ~ok
              THEN WrapperFinally(app, c, Thrown("get", ""))
              ELSE IF \E i \in 1..Len(app.summaries) :
                          SameWeek(app.summaries[i], app.calls[c].batch)
              THEN WrapperFinally(app, c, Returned(<<>>))
              ELSE SheetRequest(app, c, "weekAppend")
    /\ UNCHANGED engineVars

\* values.append to Week Summary answers invocation c
WeekAppendResponds(c, ok) ==
    /\ app.calls[c].func \in {"#appendWeeklySummary", "#updateWeeklySummary"}
    /\ app.calls[c].pc = "weekAppend"
    /\ app' = IF ok
              THEN WrapperFinally([app EXCEPT !.summaries = Append(@, app.calls[c].batch)],
                                  c, Returned(<<>>))
              ELSE WrapperFinally(app, c, Thrown("append", ""))
    /\ UNCHANGED engineVars

\* updateWeeklySummary(summaryData) is called
UpdateWeeklySummary(summaryData) ==
    /\ Len(app.calls) < MaxSummaryCalls
    /\ app' = SheetBody(WrapperEnter(app, "sheets", "#updateWeeklySummary", summaryData, 0),
                        Len(app.calls) + 1, "updateGet")
    /\ UNCHANGED engineVars

\* the first row under the header that holds the week of summaryData, 0
\* when there is none
UpdateRowIndex(rows, summaryData) ==
    IF \E i \in 1..Len(rows) : SameWeek(rows[i], summaryData)
    THEN CHOOSE i \in 1..Len(rows) :
            /\ SameWeek(rows[i], summaryData)
            /\ \A j \in 1..(i - 1) : ~SameWeek(rows[j], summaryData)
    ELSE 0

\* values.get of Week Summary!A:J answers the #updateWeeklySummary of
\* invocation c: with the header row only #appendWeeklySummary is called;
\* else the row found is written (the field rows of the invocation holds
\* its index under the header), or a row is appended
UpdateGetResponds(c, ok) ==
    /\ app.calls[c].func = "#updateWeeklySummary"
    /\ app.calls[c].pc = "updateGet"
    /\ app' = IF ~ok
              THEN WrapperFinally(app, c, Thrown("get", ""))
              ELSE IF app.summaries = <<>>
              THEN SheetRequest(app, c, "weekGet")
              ELSE IF UpdateRowIndex(app.summaries, app.calls[c].batch) > 0
              THEN SheetRequest(
                      [app EXCEPT !.calls[c].rows =
                          <<UpdateRowIndex(app.summaries, app.calls[c].batch)>>],
                      c, "weekUpdate")
              ELSE SheetRequest(app, c, "weekAppend")
    /\ UNCHANGED engineVars

\* values.update of the row found answers invocation c
WeekUpdateResponds(c, ok) ==
    /\ app.calls[c].func = "#updateWeeklySummary"
    /\ app.calls[c].pc = "weekUpdate"
    /\ app' = IF ok
              THEN WrapperFinally(
                      [app EXCEPT !.summaries[app.calls[c].rows[1]] = app.calls[c].batch],
                      c, Returned(<<>>))
              ELSE WrapperFinally(app, c, Thrown("update", ""))
    /\ UNCHANGED engineVars

\* the Week Summary sheet under calls made one after the other
NextWeekly ==
    \/ Quiet /\ \E d \in Summaries : AppendWeeklySummary(d)
    \/ Quiet /\ \E d \in Summaries : UpdateWeeklySummary(d)
    \/ \E c \in 1..Len(app.calls), ok \in BOOLEAN : WeekGetResponds(c, ok)
    \/ \E c \in 1..Len(app.calls), ok \in BOOLEAN : WeekAppendResponds(c, ok)
    \/ \E c \in 1..Len(app.calls), ok \in BOOLEAN : UpdateGetResponds(c, ok)
    \/ \E c \in 1..Len(app.calls), ok \in BOOLEAN : WeekUpdateResponds(c, ok)

SpecWeekly == Init /\ [][NextWeekly]_vars

(* ----- the environment the services start in ----------------------- *)

\* the .env files of a run: the deployed one, one whose Hugging Face key is
\* malformed, one that sets no key
EnvFiles == {DeployedEnv, ProcessEnv, [name \in {} |-> <<>>]}

\* require('dotenv').config() before any service is used
DotenvConfig(env) ==
    /\ app.calls = <<>>
    /\ app.env = DeployedEnv /\ env # DeployedEnv
    /\ app' = [app EXCEPT !.env = env]
    /\ UNCHANGED engineVars

\* the wrappers of the three services under each of the environments
NextEnv ==
    \/ \E env \in EnvFiles : DotenvConfig(env)
    \/ NextWrappers

SpecEnv == Init /\ [][NextEnv]_vars

(* ------------------------------------------------------------------ *)
(* Properties                                                           *)
(* ------------------------------------------------------------------ *)

\* The engine throws plain Error objects; the kind of a failure is told
\* by its message.
LifecycleError(out) == ~out.ok /\ out.err = ErrDestroyed
CryptoError(out) == ~out.ok /\ out.err \in {ErrEncryptionFailed, ErrDecryptionFailed}
ConfigurationError(out) == ~out.ok /\ out.err \in {ErrNotSet, ErrInvalidFormat}

\* the stored envelope the last decrypt call was given, or was made from
Given == store[last.arg.idx]

\* C1 (round trip): when an engine that is not destroyed decrypts an
\* envelope that encrypt returned for a well-formed string p under the
\* master key the engine has now, decrypt returns exactly p, whatever
\* calls came in between.
C1_RoundTrip ==
    (/\ last.op = "decrypt" /\ last.arg.kind = "stored" /\ ~last.wasDestroyed
     /\ last.key = Given.key /\ WellFormed(Given.pt))
        => last.out = Returned(Given.pt)

\* C1 witness: the first of two envelopes, made from a string with 1-, 2-,
\* 3- and 4-byte characters, decrypts to that string.
C1_Witness ==
    /\ last.op = "decrypt" /\ last.arg.kind = "stored" /\ ~last.wasDestroyed
    /\ Len(store) = 2 /\ last.arg.idx = 1 /\ Given.pt = Token
    /\ last.out = Returned(Token)

\* C2 (tamper detection): decrypt of an envelope with one byte of its
\* decoded form modified fails with a CryptoError, and whenever decrypt
\* returns a plaintext the (derived key, iv, ciphertext, tag) it was given
\* is one a cipher produced.
C2_TamperDetected ==
    /\ (last.op = "decrypt" /\ last.arg.kind = "tampered" /\ ~last.wasDestroyed)
            => CryptoError(last.out)
    /\ (last.op = "decrypt" /\ last.out.ok)
            => \E t \in gcmTags :
                  /\ t.key = Pbkdf2Sync(last.key, heap[last.alloc.salt])
                  /\ t.iv = heap[last.alloc.iv]
                  /\ t.ct = heap[last.alloc.encrypted]
                  /\ t.tag = heap[last.alloc.authTag]

\* C2 witness: an envelope with a byte of its tag modified was rejected.
C2_Witness ==
    /\ last.op = "decrypt" /\ last.arg.kind = "tampered" /\ last.arg.region = "tag"
    /\ ~last.wasDestroyed /\ CryptoError(last.out)

\* C3 (wrong key): decrypt of an envelope made under master key A on an
\* engine, not destroyed, whose master key B differs from A fails with a
\* CryptoError and returns nothing.
C3_WrongKeyRejected ==
    (/\ last.op = "decrypt" /\ last.arg.kind = "stored" /\ ~last.wasDestroyed
     /\ last.key # Given.key)
        => (CryptoError(last.out) /\ last.out.val = <<>>)

\* C3 witness: an engine constructed with another key was handed the
\* envelope of the other engine and rejected it.
C3_Witness ==
    /\ last.op = "decrypt" /\ last.arg.kind = "stored" /\ ~last.wasDestroyed
    /\ last.e # Given.by /\ last.key = KeySheets /\ Given.key = KeyStrava
    /\ CryptoError(last.out)

\* C4 (malformed input): decrypt, on an engine that is not destroyed, of a
\* value that is no string or that decodes to fewer than 32 + 12 + 16 bytes
\* fails with a CryptoError; decoded input of exactly that length does not
\* fail on its length.
C4_MalformedRejected ==
    (last.op = "decrypt" /\ ~last.wasDestroyed) =>
        /\ (last.arg.type # "string" \/ last.arg.len < 32 + 12 + 16) => CryptoError(last.out)
        /\ last.arg.len = 32 + 12 + 16 => last.out.cause # "ERR_OUT_OF_RANGE"

\* C4 witness: text that decodes to 59 bytes was rejected with a CryptoError.
C4_Witness ==
    /\ last.op = "decrypt" /\ ~last.wasDestroyed /\ last.arg.type = "string"
    /\ last.arg.len = 59 /\ CryptoError(last.out)

\* C5 (post-destroy contract): encrypt and decrypt on a destroyed engine
\* fail with a LifecycleError, which is no CryptoError, and return nothing.
C5_PostDestroy ==
    (last.op \in {"encrypt", "decrypt"} /\ last.wasDestroyed)
        => (LifecycleError(last.out) /\ ~CryptoError(last.out) /\ last.out.val = <<>>)

\* C5 witness: encrypt was called on a destroyed engine.
C5_Witness ==
    last.op = "encrypt" /\ last.wasDestroyed /\ LifecycleError(last.out)

\* C6 (destroy is idempotent): destroy() on an engine that is destroyed
\* already returns normally and changes neither the engine's master key,
\* buffer set, instance fields and flag nor any buffer.
C6_DestroyIdempotent ==
    [][\A e \in Engines :
          (engine[e].isDestroyed /\ last'.op = "destroy" /\ last'.e = e)
              => (last'.out.ok /\ engine'[e] = engine[e] /\ heap' = heap)]_vars

\* C6 witness: destroy() was called on a destroyed engine.
C6_Witness ==
    last.op = "destroy" /\ last.wasDestroyed /\ last.out.ok

\* C7 (Destroyed is absorbing): no step takes a destroyed engine to one
\* that is not destroyed or that has a master key.
C7_DestroyedAbsorbing ==
    [][\A e \in Engines :
          engine[e].isDestroyed
              => (engine'[e].isDestroyed /\ engine'[e].masterKey = NullBuf)]_vars

\* C7 witness: clearKey() was called on a destroyed engine, which still
\* is destroyed and without a key.
C7_Witness ==
    /\ last.op = "clearKey" /\ last.wasDestroyed
    /\ engine[last.e].isDestroyed /\ engine[last.e].masterKey = NullBuf

\* the value of {SOURCE}_ENCRYPTION_KEY decoded, <<>> when it is not set
ConfiguredKey(source) ==
    IF (ToUpperCase(source) \o "_ENCRYPTION_KEY") \in DOMAIN ProcessEnv
    THEN Base64Decode(ProcessEnv[ToUpperCase(source) \o "_ENCRYPTION_KEY"])
    ELSE <<>>

\* C8 (construction): new SecureEncryption(source) yields an engine, whose
\* master key is the decoded value, exactly when {SOURCE}_ENCRYPTION_KEY
\* decodes to 32 bytes; otherwise it fails with a ConfigurationError and
\* there is no engine.
C8_Construction ==
    last.op = "construct" =>
        IF Len(ConfiguredKey(last.arg)) = 32
        THEN /\ last.out.ok
             /\ engine[last.e].exists /\ ~engine[last.e].isDestroyed
             /\ engine[last.e].masterKey = ConfiguredKey(last.arg)
        ELSE ConfigurationError(last.out) /\ ~engine[last.e].exists

\* C8 witness: construction for a source whose upper-cased variable holds
\* 31 bytes (the variable of the name as given holds 32) failed.
C8_Witness ==
    /\ last.op = "construct" /\ last.arg = "huggingface"
    /\ ConfigurationError(last.out) /\ ~engine[last.e].exists

\* C9 (non-determinism): any two envelopes encrypt returned on one engine
\* differ, and so do their salts and their ivs.
C9_FreshSaltAndIv ==
    \A i, j \in 1..Len(store) :
        (i < j /\ store[i].by = store[j].by) =>
            /\ store[i].text # store[j].text
            /\ SubSeq(Base64Decode(store[i].text), 1, 32)
                   # SubSeq(Base64Decode(store[j].text), 1, 32)
            /\ SubSeq(Base64Decode(store[i].text), 33, 44)
                   # SubSeq(Base64Decode(store[j].text), 33, 44)

\* C9 witness: the same plaintext was encrypted twice on one engine.
C9_Witness ==
    /\ Len(store) = 2 /\ store[1].by = store[2].by
    /\ store[1].pt = Token /\ store[2].pt = Token /\ store[1].key = store[2].key

\* C10 (failure-path wiping): when encrypt or decrypt fails, every buffer
\* the call got from createTempBuffer is all-zero when the error reaches
\* the caller.
C10_FailureWipes ==
    (last.op \in {"encrypt", "decrypt"} /\ ~last.out.ok) =>
        \A r \in DOMAIN last.alloc : IsZero(heap[last.alloc[r]])

\* C10 witness: createCipheriv threw after the salt, the iv, the plaintext
\* copy and the derived key were written.
C10_Witness ==
    /\ last.op = "encrypt" /\ last.out.cause = "createCipheriv"
    /\ DOMAIN last.alloc = {"salt", "iv", "plaintext", "derivedKey"}
    /\ Len(heap[last.alloc.plaintext]) > 0
    /\ \A r \in DOMAIN last.alloc : IsZero(heap[last.alloc[r]])

C12_NoBufferOutlives ==
    last.op \in {"encrypt", "decrypt"} =>
        \A r \in DOMAIN last.alloc : last.alloc[r] \notin engine[last.e].tempBuffers

\* C13 (effects of destroy): the first destroy() on an engine leaves the
\* master-key buffer zero-filled and the field null, every buffer that was
\* tracked zero-filled and the set empty, every public instance field
\* null, and the engine marked destroyed.
C13_DestroyEffects ==
    [][\A e \in Engines :
          (engine[e].exists /\ ~engine[e].isDestroyed /\ last'.op = "destroy" /\ last'.e = e)
              => /\ last'.out.ok
                 /\ last'.locals.masterKey = Zero(KeyLength)
                 /\ engine'[e].masterKey = NullBuf
                 /\ \A b \in engine[e].tempBuffers : IsZero(heap'[b])
                 /\ engine'[e].tempBuffers = {}
                 /\ \A k \in DOMAIN engine'[e].props : engine'[e].props[k] = NullProp
                 /\ engine'[e].isDestroyed]_vars

\* C13 witness: destroy() ran on an engine that had its key and tracked a
\* salt buffer (32 bytes, not the caller's) that is now zero-filled.
C13_Witness ==
    /\ last.op = "destroy" /\ ~last.wasDestroyed /\ last.key = KeyStrava
    /\ engine[last.e].isDestroyed /\ engine[last.e].masterKey = NullBuf
    /\ \E b \in DOMAIN heap \ held : Len(heap[b]) = SaltLength /\ IsZero(heap[b])

\* C14 (helpers after destroy): createTempBuffer, clearBuffer and
\* clearAllTempBuffers on a destroyed engine fail with a LifecycleError.
C14_HelpersFailAfterDestroy ==
    (last.op \in {"createTempBuffer", "clearBuffer", "clearAllTempBuffers"}
        /\ last.wasDestroyed)
            => LifecycleError(last.out)

\* C15 (envelope layout): the decoded envelope encrypt returns for p is
\* salt (32) || iv (12) || tag (16) || ciphertext, 60 bytes plus the UTF-8
\* length of p long, and decrypt of an envelope reads its salt, iv, tag and
\* ciphertext from the bytes 0-32, 32-44, 44-60 and 60-end.
C15_EnvelopeLayout ==
    /\ (last.op = "encrypt" /\ last.out.ok) =>
          LET data == Base64Decode(last.out.val)
              p == IF last.arg.type = "undefined" THEN <<>> ELSE last.arg.val
          IN /\ Len(data) = 60 + Utf8ByteLength(p)
             /\ Len(data) >= 60
             /\ SubSeq(data, 1, 32) = heap[last.alloc.salt]
             /\ SubSeq(data, 33, 44) = heap[last.alloc.iv]
             /\ \E t \in gcmTags :
                   /\ t.tag = SubSeq(data, 45, 60)
                   /\ t.ct = SubSeq(data, 61, Len(data))
                   /\ t.iv = SubSeq(data, 33, 44)
                   /\ t.key = Pbkdf2Sync(last.key, SubSeq(data, 1, 32))
                   /\ t.ct = CipherUpdate(t.key, t.iv, Utf8Encode(p))
    /\ (last.op = "decrypt" /\ last.arg.kind = "stored" /\ last.out.ok) =>
          LET data == Base64Decode(Given.text)
          IN /\ heap[last.alloc.salt] = SubSeq(data, 1, 32)
             /\ heap[last.alloc.iv] = SubSeq(data, 33, 44)
             /\ heap[last.alloc.authTag] = SubSeq(data, 45, 60)
             /\ heap[last.alloc.encrypted] = SubSeq(data, 61, Len(data))

\* C15 witness: an envelope of 60 + 10 bytes (the string of 1-, 2-, 3- and
\* 4-byte characters) was decrypted from a 10-byte ciphertext copy.
C15_Witness ==
    /\ last.op = "decrypt" /\ last.arg.kind = "stored" /\ last.out.ok
    /\ Len(Base64Decode(Given.text)) = 70
    /\ Len(heap[last.alloc.encrypted]) = 10
    /\ Len(heap[last.alloc.authTag]) = 16

\* C16 (engine independence): an encrypt, decrypt, clearKey,
\* clearAllTempBuffers or destroy call on one engine leaves the master
\* key, the buffer set (and the bytes of the buffers in it) and the
\* destroyed flag of every other engine as they were.
C16_EngineIndependence ==
    [][\A a \in Engines, b \in Engines :
          (/\ a # b
           /\ last'.e = a
           /\ last'.op \in {"encrypt", "decrypt", "clearKey", "clearAllTempBuffers", "destroy"})
              => /\ engine'[b].masterKey = engine[b].masterKey
                 /\ engine'[b].tempBuffers = engine[b].tempBuffers
                 /\ engine'[b].isDestroyed = engine[b].isDestroyed
                 /\ \A x \in engine[b].tempBuffers : heap'[x] = heap[x]]_vars

\* C16 witness: engine 1 was destroyed while engine 2, built for the same
\* source tag, tracks a buffer with bytes in it; engine 2 has its key and
\* is not destroyed.
C16_Witness ==
    /\ last.op = "destroy" /\ last.e = 1 /\ ~last.wasDestroyed
    /\ engine[2].exists /\ ~engine[2].isDestroyed /\ engine[2].masterKey = KeyStrava
    /\ \E x \in engine[2].tempBuffers : ~IsZero(heap[x])

\* C17 (Active stays Active): an encrypt or decrypt call on an engine that
\* is not destroyed, failed or not, leaves it not destroyed and with the
\* same master key; and in every state an engine that is not destroyed
\* encrypts a string and decrypts every envelope made under its key.
C17_ActiveStaysActive ==
    /\ [](\A e \in Engines :
            (engine[e].exists /\ ~engine[e].isDestroyed) =>
                /\ EncryptRun(engine[e], heap, rng, gcmTags, Str(Token), "none").out.ok
                /\ \A i \in 1..Len(store) :
                      store[i].key = engine[e].masterKey
                          => DecryptRun(engine[e], heap, gcmTags, Str(store[i].text)).out.ok)
    /\ [][\A e \in Engines :
            (/\ engine[e].exists /\ ~engine[e].isDestroyed
             /\ last'.e = e /\ last'.op \in {"encrypt", "decrypt"})
                => /\ ~engine'[e].isDestroyed
                   /\ engine'[e].masterKey = engine[e].masterKey]_vars

\* C17 witness: a stored envelope was decrypted after a failed call had
\* emptied the buffer set (the set holds the four buffers of this decrypt
\* only).
C17_Witness ==
    /\ last.op = "decrypt" /\ last.arg.kind = "stored" /\ last.out.ok
    /\ ~engine[last.e].isDestroyed
    /\ engine[last.e].tempBuffers
          = {last.alloc.salt, last.alloc.iv, last.alloc.authTag, last.alloc.encrypted}

\* C19 (every secret buffer is tracked): when decrypt has thrown, every
\* buffer of the call that is not a member of the engine's set of temporary
\* buffers (the key pbkdf2Sync returned, the bytes decipher.update()
\* returned) is all-zero, so that nothing the error path cannot reach still
\* holds derived-key or deciphered bytes.
C19_SecretsTracked ==
    (last.op = "decrypt" /\ ~last.out.ok) =>
        \A r \in DOMAIN last.locals : IsZero(last.locals[r])

\* C18 (no duplicate entries): the Daily sheet never holds two rows with
\* the same activity id, whatever appendActivities calls were made.
C18_NoDuplicateRows ==
    \A i, j \in 1..Len(app.rows) : i # j => app.rows[i] # app.rows[j]

\* C20 (scoped acquisition): every wrapper invocation that has returned or
\* thrown has destroyed the engine it constructed.
C20_ScopedAcquisition ==
    \A c \in 1..Len(app.calls) :
        (app.calls[c].pc \in {"returned", "threw"} /\ app.calls[c].own # 0)
            => app.made[app.calls[c].own].isDestroyed

\* C22 (dispose is destroy): the dispose method returns normally and leaves
\* the engine and every buffer as destroy() would from the same state; on
\* a destroyed engine it changes nothing.
C22_DisposeIsDestroy ==
    [][\A e \in Engines :
          (last'.op = "dispose" /\ last'.e = e)
              => /\ last'.out.ok
                 /\ engine'[e] = DestroyOp([eng |-> engine[e], heap |-> heap]).eng
                 /\ heap' = DestroyOp([eng |-> engine[e], heap |-> heap]).heap
                 /\ last'.locals.masterKey
                        = DestroyOp([eng |-> engine[e], heap |-> heap]).key
                 /\ engine[e].isDestroyed => (engine' = engine /\ heap' = heap)]_vars

\* C22 witness: the dispose method ran on an engine that was not destroyed
\* and held a key; the engine is destroyed and the key buffer is all-zero.
C22_Witness ==
    /\ last.op = "dispose" /\ ~last.wasDestroyed /\ last.out.ok
    /\ last.key # NullBuf /\ ~IsZero(last.key)
    /\ engine[last.e].isDestroyed /\ engine[last.e].masterKey = NullBuf
    /\ IsZero(last.locals.masterKey)

\* C23 (master-key stability): every encrypt or decrypt call on an engine
\* that is not destroyed runs with the 32-byte key resolved at construction
\* (the only source an engine of this specification is built from is
\* "Strava").
C23_MasterKeyStable ==
    (last.op \in {"encrypt", "decrypt"} /\ ~last.wasDestroyed)
        => last.key = ConfiguredKey("Strava")

\* C28 (clearBuffer on a tracked buffer): clearBuffer(b) on a member b of
\* the engine's buffer set returns normally, leaves b all-zero at its
\* length, removes b and nothing else from the set, and changes no other
\* buffer, nor the master key, the destroyed flag or the instance fields.
C28_ClearTracked ==
    [][\A e \in Engines : \A b \in engine[e].tempBuffers :
          (last'.op = "clearBuffer" /\ last'.e = e /\ last'.arg = b)
              => /\ last'.out.ok
                 /\ heap'[b] = Zero(Len(heap[b]))
                 /\ engine'[e].tempBuffers = engine[e].tempBuffers \ {b}
                 /\ \A x \in DOMAIN heap \ {b} : heap'[x] = heap[x]
                 /\ engine'[e].masterKey = engine[e].masterKey
                 /\ engine'[e].isDestroyed = engine[e].isDestroyed
                 /\ engine'[e].props = engine[e].props]_vars

\* C28 witness: clearBuffer ran on a tracked buffer that held non-zero
\* bytes, while the set held other buffers with non-zero bytes; the buffer
\* is all-zero and the others still are not.
C28_Witness ==
    /\ last.op = "clearBuffer" /\ DOMAIN last.alloc = {"buffer"}
    /\ ~IsZero(last.locals.before)
    /\ IsZero(heap[last.arg]) /\ last.arg \notin engine[last.e].tempBuffers
    /\ \E x \in engine[last.e].tempBuffers : ~IsZero(heap[x])

\* C29 (clearBuffer on an untracked buffer): clearBuffer(b) on a buffer b
\* that is not a member of the engine's buffer set returns normally and
\* changes neither the set, nor any buffer, b included.
C29_ClearUntrackedIsNoOp ==
    [][\A e \in Engines : \A b \in held \ engine[e].tempBuffers :
          (last'.op = "clearBuffer" /\ last'.e = e /\ last'.arg = b)
              => /\ last'.out.ok
                 /\ engine'[e].tempBuffers = engine[e].tempBuffers
                 /\ heap' = heap]_vars

\* C30 (createTempBuffer): on an engine that is not destroyed
\* createTempBuffer(size) returns a buffer that did not exist before, of
\* size bytes, all zero, and the buffer set is the set before plus that
\* buffer, no buffer that existed being changed; on a destroyed engine it
\* fails with a LifecycleError and changes neither set nor buffers.
C30_CreateTempBuffer ==
    [][\A e \in Engines :
          (last'.op = "createTempBuffer" /\ last'.e = e)
              => IF engine[e].isDestroyed
                 THEN /\ LifecycleError(last'.out)
                      /\ engine' = engine /\ heap' = heap /\ held' = held
                 ELSE /\ last'.out.ok
                      /\ last'.out.val = <<last'.alloc.buffer>>
                      /\ last'.alloc.buffer \notin DOMAIN heap
                      /\ Len(heap'[last'.alloc.buffer]) = last'.arg
                      /\ IsZero(heap'[last'.alloc.buffer])
                      /\ engine'[e].tempBuffers
                            = engine[e].tempBuffers \cup {last'.alloc.buffer}
                      /\ \A x \in DOMAIN heap : heap'[x] = heap[x]]_vars

\* C30 witness: createTempBuffer(2) returned a new tracked all-zero buffer
\* of two bytes while the set held buffers with non-zero bytes.
C30_Witness ==
    /\ last.op = "createTempBuffer" /\ last.out.ok /\ last.arg = 2
    /\ ~last.wasDestroyed
    /\ last.alloc.buffer \in engine[last.e].tempBuffers
    /\ heap[last.alloc.buffer] = <<0, 0>>
    /\ \E x \in engine[last.e].tempBuffers \ {last.alloc.buffer} : ~IsZero(heap[x])

\* C21 (configuration errors reach the caller): a wrapper invocation whose
\* engine construction failed ends by throwing the ConfigurationError of
\* the constructor.
C21_ConfigurationErrorPropagates ==
    \A c \in 1..Len(app.calls) :
        (app.calls[c].pc \in {"returned", "threw"} /\ app.calls[c].own = 0)
            => ConfigurationError(app.calls[c].out)

\* C24 (wrapper concurrency): while an invocation of a service is between
\* its start and its end the engine its operations use (the one the
\* #encryption field holds) is not destroyed, and no invocation ends with
\* a LifecycleError.
C24_OverlapSafe ==
    \A c \in 1..Len(app.calls) :
        /\ app.calls[c].pc \notin {"returned", "threw"}
              => ~app.made[app.field[app.calls[c].service]].isDestroyed
        /\ ~LifecycleError(app.calls[c].out)

\* C25 (token-expiry check): #isTokenExpired reports every token whose
\* expiry lies more than five minutes in the past as expired (the current
\* time is then later than the expiry time minus five minutes).
C25_ExpiredTokenReported ==
    (app.check.done /\ app.token.present
        /\ app.now > app.token.expiresAt + FiveMinutesInMs)
            => app.check.result

\* C26 (refresh-and-retry terminates): every getActivities invocation that
\* has started returns or throws at some later time, whatever the API
\* answers, when every request is answered.
C26_GetActivitiesCompletes ==
    \A c \in 1..MaxCalls :
        [](  (Len(app.calls) >= c /\ app.calls[c].func = "#getActivities")
                => <>(Len(app.calls) >= c
                        /\ app.calls[c].pc \in {"returned", "threw"}))

\* the week of summaryData is a row of the Week Summary sheet
WeekPresent(summaryData) ==
    \E i \in 1..Len(app.summaries) :
        /\ app.summaries[i].weekNumber = summaryData.weekNumber
        /\ app.summaries[i].year = summaryData.year

====
